---- MODULE Spec2Model ----
(***************************************************************************)
(* Registration and version lifecycle engine of appiman: the Version       *)
(* Manager (src/core/version_manager.rs, src/core/metadata.rs), the        *)
(* Metadata Cache (src/core/cache.rs) and the Processor                    *)
(* (src/registrar/processor.rs).                                           *)
(*                                                                         *)
(* The file system is modelled by what the code observes of it: per        *)
(* application the ledger (metadata.json), the set of version directories, *)
(* the target of the `current` symlink, the target of the launcher symlink *)
(* and the Exec line of the desktop entry; the cache file; the staged      *)
(* bundles.  Path::exists() follows symlinks, so a symlink whose target    *)
(* directory is gone does not "exist" while it still occupies its path.    *)
(***************************************************************************)
EXTENDS Integers, Sequences, FiniteSets, TLC

\* ---------------------------------------------------------------- bounds
MaxVer == 3
MaxKeep == 2
MaxClock == 4
MaxRuns == 2
MaxEdits == 1
MaxText == 2
MaxCounter == 3

\* ------------------------------------------------------- basic vocabulary
Apps == {"a", "b"}

NoLink == <<"nolink">>

\* Version labels: a numeric label parsed from a file name, or a label
\* synthesized from the clock (processor.rs:293).
FileLabel(k) == <<"v", k>>
TsLabel(s) == <<"ts", s>>
FileLabels == {FileLabel(k) : k \in 1..MaxVer}
NoVer == <<"nover", 0>>

VARIABLES
    ledger,       \* app -> sequence of VersionInfo (metadata.json; <<>> = no file)
    dirs,         \* app -> set of labels with a versions/<label> directory
    current,      \* app -> label the `current` symlink points at, or NoLink
    clock,        \* app -> wall clock as read by Utc::now() for that app's ledger
    maxVersions,  \* config.versions.max_versions_per_app
    autoCleanup,  \* config.versions.auto_cleanup_enabled
    last,         \* outcome of the most recent Version Manager call
    staged,       \* bundles present in the staging directory
    content,      \* bundle -> content of the staged file (its checksum)
    cacheFile,    \* metadata_cache.json: bundle path -> CacheEntry or NoEntry
    cacheMem,     \* MetadataCache.entries of the running Processor
    launcher,     \* app -> label whose payload the launcher symlink targets
    desktop,      \* app -> Exec line of the desktop entry, or "absent"
    run,          \* the Processor of the running process_all, or Idle
    pc,           \* bundle -> position of its pipeline in the running batch
    lver,         \* bundle -> `version` local of process_single_appimage
    solo,         \* bundle -> outcome its pipeline has when it runs alone
    nruns,        \* number of process_all runs started
    nedits,       \* number of changes the user made to staged or published files
    report,       \* ProcessReport of the last completed process_all
    lock,         \* bundle whose worker holds the cache Mutex, or "free"
    saves,        \* number of cache.save() calls of the running or last batch
    exitStatus,   \* exit status of the last scan command
    sec,          \* a SecurityChecker applied to one bundle on its own
    call,         \* a text function applied to one argument on its own
    loaded,       \* bundle -> AppMetadata its worker's install_version has loaded
    start         \* the installation and the cache as the running batch found them

vmVars == <<ledger, dirs, current, clock, maxVersions, autoCleanup, last>>
scanVars == <<lock, saves, exitStatus, sec, call, loaded, start>>
procVars == <<staged, content, cacheFile, cacheMem, launcher, desktop, run, pc,
              lver, solo, nruns, nedits, report, lock, saves, exitStatus, sec, call, loaded, start>>
vars == <<ledger, dirs, current, clock, maxVersions, autoCleanup, last,
          staged, content, cacheFile, cacheMem, launcher, desktop, run, pc,
          lver, solo, nruns, nedits, report, lock, saves, exitStatus, sec, call, loaded, start>>

\* ------------------------------------------------------------ AppMetadata
VersionInfo(v, t, act) == [version |-> v, installed_at |-> t, is_active |-> act]

LedgerVersions(m) == {m[i].version : i \in 1..Len(m)}

get_version(m, v) == \E i \in 1..Len(m) : m[i].version = v

\* first record with is_active (Iterator::find)
ActiveIdx(m) ==
    IF \E i \in 1..Len(m) : m[i].is_active
    THEN CHOOSE i \in 1..Len(m) : m[i].is_active /\ \A j \in 1..(i-1) : ~m[j].is_active
    ELSE 0

get_active_version(m) == IF ActiveIdx(m) = 0 THEN NoLink ELSE m[ActiveIdx(m)].version

\* add_version that forgets to deactivate the other records
add_version_keep_active(m, v, now) == Append(m, VersionInfo(v, now, TRUE))

add_version(m, v, now) ==
    Append([i \in 1..Len(m) |-> [m[i] EXCEPT !.is_active = FALSE]],
           VersionInfo(v, now, TRUE))

\* set_active_version that activates v without clearing the others
set_active_version_no_clear(m, v) ==
    [i \in 1..Len(m) |-> [m[i] EXCEPT !.is_active = (@ \/ m[i].version = v)]]

set_active_version(m, v) ==
    [i \in 1..Len(m) |-> [m[i] EXCEPT !.is_active = (m[i].version = v)]]

RECURSIVE RemoveAt(_, _)
RemoveAt(s, pos) ==
    IF s = <<>> THEN <<>>
    ELSE IF pos = 1 THEN Tail(s)
    ELSE <<Head(s)>> \o RemoveAt(Tail(s), pos - 1)

\* removes the first record with that label, if any (Iterator::position)
meta_remove_version(m, v) ==
    IF get_version(m, v)
    THEN RemoveAt(m, CHOOSE i \in 1..Len(m) :
                        m[i].version = v /\ \A j \in 1..(i-1) : m[j].version # v)
    ELSE m

\* stable insertion of r into a sequence sorted by installed_at descending
RECURSIVE InsertDesc(_, _)
InsertDesc(s, r) ==
    IF s = <<>> THEN <<r>>
    ELSE IF Head(s).installed_at >= r.installed_at
         THEN <<Head(s)>> \o InsertDesc(Tail(s), r)
         ELSE <<r>> \o s

\* stable insertion of r into a sequence sorted by installed_at ascending
RECURSIVE InsertAsc(_, _)
InsertAsc(s, r) ==
    IF s = <<>> THEN <<r>>
    ELSE IF Head(s).installed_at <= r.installed_at
         THEN <<Head(s)>> \o InsertAsc(Tail(s), r)
         ELSE <<r>> \o s

\* the sort with the comparison the other way round: oldest first
RECURSIVE SortAsc(_)
SortAsc(s) ==
    IF s = <<>> THEN <<>>
    ELSE LET n == Len(s) IN InsertAsc(SortAsc(SubSeq(s, 1, n - 1)), s[n])

\* versions.sort_by(|a, b| b.installed_at.cmp(&a.installed_at)) (stable)
RECURSIVE SortDesc(_)
SortDesc(s) ==
    IF s = <<>> THEN <<>>
    ELSE LET n == Len(s) IN InsertDesc(SortDesc(SubSeq(s, 1, n - 1)), s[n])

\* ---------------------------------------------------------- VersionManager
\* the loop of cleanup_old_versions over to_remove (version_manager.rs:238-247)
RECURSIVE PruneLoop(_, _, _)
PruneLoop(m, d, toRemove) ==
    IF toRemove = <<>> THEN [ledger |-> m, dirs |-> d]
    ELSE LET v == Head(toRemove) IN
         IF get_active_version(m) # v
         THEN PruneLoop(meta_remove_version(m, v), d \ {v}, Tail(toRemove))
         ELSE PruneLoop(m, d, Tail(toRemove))

\* cleanup_old_versions that keeps one version more than configured
cleanup_old_versions_off_by_one(m, d) ==
    IF ~autoCleanup THEN [ledger |-> m, dirs |-> d]
    ELSE IF Len(m) <= maxVersions + 1 THEN [ledger |-> m, dirs |-> d]
    ELSE LET sorted == SortDesc(m)
             toRemove == [i \in 1..(Len(sorted) - maxVersions - 1) |->
                              sorted[i + maxVersions + 1].version]
         IN  PruneLoop(sorted, d, toRemove)

\* cleanup_old_versions on one application's ledger m and directories d
cleanup_old_versions(m, d) ==
    IF ~autoCleanup THEN [ledger |-> m, dirs |-> d]
    ELSE IF Len(m) <= maxVersions THEN [ledger |-> m, dirs |-> d]
    ELSE LET sorted == SortDesc(m)
             toRemove == [i \in 1..(Len(sorted) - maxVersions) |->
                              sorted[i + maxVersions].version]
         IN  PruneLoop(sorted, d, toRemove)

\* Path::exists() on a symlink: the link is there and its target directory is
LinkExists(link, d) == link # NoLink /\ link \in d

\* update_current_link that leaves an existing link where it points
update_current_link_keep(m, d, cur) ==
    IF get_active_version(m) = NoLink THEN [ok |-> TRUE, current |-> cur]
    ELSE IF cur = NoLink THEN [ok |-> TRUE, current |-> get_active_version(m)]
    ELSE [ok |-> TRUE, current |-> cur]

\* update_current_link: remove the link if exists(), then symlink(); symlink()
\* fails with EEXIST when a link whose target is gone still occupies the path
update_current_link(m, d, cur) ==
    IF get_active_version(m) = NoLink THEN [ok |-> TRUE, current |-> cur]
    ELSE IF LinkExists(cur, d) \/ cur = NoLink
         THEN [ok |-> TRUE, current |-> get_active_version(m)]
         ELSE [ok |-> FALSE, current |-> cur]

\* install_version without the check for an already listed version
install_version_no_exists_check(app, v) ==
    LET m == ledger[app]
        d1 == dirs[app] \cup {v}
        m1 == add_version(m, v, clock[app])
        lk == update_current_link(m1, d1, current[app])
        cl == cleanup_old_versions(m1, d1)
    IN  IF ~lk.ok
        THEN [res |-> "Io", ledger |-> m1, dirs |-> d1,
              current |-> lk.current, ticked |-> TRUE]
        ELSE [res |-> "Ok", ledger |-> cl.ledger, dirs |-> cl.dirs,
              current |-> lk.current, ticked |-> TRUE]

\* install_version(app, v, bundle) for a bundle that exists and is readable:
\* the result and the application's ledger, directories and current link
install_version(app, v) ==
    LET m == ledger[app] IN
    IF get_version(m, v)
    THEN [res |-> "VersionExists", ledger |-> m, dirs |-> dirs[app],
          current |-> current[app], ticked |-> FALSE]
    ELSE LET d1 == dirs[app] \cup {v}
             m1 == add_version(m, v, clock[app])
             lk == update_current_link(m1, d1, current[app])
             cl == cleanup_old_versions(m1, d1)
         IN  IF ~lk.ok
             THEN [res |-> "Io", ledger |-> m1, dirs |-> d1,
                   current |-> lk.current, ticked |-> TRUE]
             ELSE [res |-> "Ok", ledger |-> cl.ledger, dirs |-> cl.dirs,
                   current |-> lk.current, ticked |-> TRUE]

\* install_version(app, v, bundle) from the point where it has loaded the
\* ledger m and found that m does not list v: the copy, add_version and
\* save_app_metadata of the loaded ledger, update_current_link and
\* cleanup_old_versions
install_version_saved(app, v, m) ==
    LET d1 == dirs[app] \cup {v}
        m1 == add_version(m, v, clock[app])
        lk == update_current_link(m1, d1, current[app])
        cl == cleanup_old_versions(m1, d1)
    IN  IF ~lk.ok
        THEN [res |-> "Io", ledger |-> m1, dirs |-> d1,
              current |-> lk.current, ticked |-> TRUE]
        ELSE [res |-> "Ok", ledger |-> cl.ledger, dirs |-> cl.dirs,
              current |-> lk.current, ticked |-> TRUE]

\* switch_version(app, v)
switch_version(app, v) ==
    LET m == ledger[app] IN
    IF m = <<>>
    THEN [res |-> "AppNotFound", ledger |-> m, current |-> current[app]]
    ELSE IF ~get_version(m, v)
    THEN [res |-> "VersionNotFound", ledger |-> m, current |-> current[app]]
    ELSE LET m1 == set_active_version(m, v)
             lk == update_current_link(m1, dirs[app], current[app])
         IN  [res |-> IF lk.ok THEN "Ok" ELSE "Io", ledger |-> m1,
              current |-> lk.current]

\* remove_version without the refusal to remove the active version
remove_version_allow_active(app, v) ==
    LET m == ledger[app] IN
    IF m = <<>>
    THEN [res |-> "AppNotFound", ledger |-> m, dirs |-> dirs[app]]
    ELSE IF Len(m) <= 1
    THEN [res |-> "InvalidVersion", ledger |-> m, dirs |-> dirs[app]]
    ELSE [res |-> "Ok", ledger |-> meta_remove_version(m, v),
          dirs |-> dirs[app] \ {v}]

\* remove_version that drops the ledger record and leaves the directory
remove_version_keeps_dir(app, v) ==
    LET m == ledger[app] IN
    IF m = <<>>
    THEN [res |-> "AppNotFound", ledger |-> m, dirs |-> dirs[app]]
    ELSE IF Len(m) <= 1
    THEN [res |-> "InvalidVersion", ledger |-> m, dirs |-> dirs[app]]
    ELSE IF get_active_version(m) = v
    THEN [res |-> "InvalidVersion", ledger |-> m, dirs |-> dirs[app]]
    ELSE [res |-> "Ok", ledger |-> meta_remove_version(m, v), dirs |-> dirs[app]]

\* remove_version(app, v)
remove_version(app, v) ==
    LET m == ledger[app] IN
    IF m = <<>>
    THEN [res |-> "AppNotFound", ledger |-> m, dirs |-> dirs[app]]
    ELSE IF Len(m) <= 1
    THEN [res |-> "InvalidVersion", ledger |-> m, dirs |-> dirs[app]]
    ELSE IF get_active_version(m) = v
    THEN [res |-> "InvalidVersion", ledger |-> m, dirs |-> dirs[app]]
    ELSE [res |-> "Ok", ledger |-> meta_remove_version(m, v),
          dirs |-> dirs[app] \ {v}]

Call(op, app, v, res) == [op |-> op, app |-> app, ver |-> v, res |-> res]

\* ------------------------------------------------------------------ bundles
\* Staged bundle files.  The file name fixes the normalized name and the
\* version label parsed from it; Health is how the file behaves when it is run
\* with --appimage-extract.
Bundles == {"a1", "a2", "b1", "u1"}

\* order in which read_dir yields the staged files
BundleOrder == <<"b1", "a1", "a2", "u1">>

\* normalize_appimage_name(file_stem)
AppOf(b) == IF b = "b1" THEN "b" ELSE "a"

\* label from the trailing -<digits and dots> of the file stem, NoVer when
\* the stem has none
FileVer(b) ==
    IF b = "a2" THEN FileLabel(2) ELSE IF b = "u1" THEN NoVer ELSE FileLabel(1)

\* the staged files whose name carries a version
Versioned == {b \in Bundles : FileVer(b) # NoVer}

Health(b) == IF b = "b1" THEN "badextract" ELSE "good"

\* when the staged file was last modified, in half seconds since the epoch
Modified(b) == IF b = "a1" THEN 1 ELSE IF b = "a2" THEN 2 ELSE 3

\* Duration::as_secs: the whole seconds of a duration given in half seconds
as_secs(h) == h \div 2

\* modification time of the staged file, in seconds
MTime(b) == as_secs(Modified(b))

\* what the Security Assessor finds about the staged file: whether it can be
\* read, its detached .sig file, and what its self-extraction shows
SecFacts(b) ==
    IF b = "a1" THEN [readable |-> TRUE, sig |-> "none", sandbox |-> "no"]
    ELSE IF b = "a2" THEN [readable |-> TRUE, sig |-> "bad", sandbox |-> "yes"]
    ELSE [readable |-> TRUE, sig |-> "none", sandbox |-> "exitfail"]

\* Option<u64> of Processor.last_scan_time
NoTime == [t |-> 0, some |-> FALSE]
SomeTime(t) == [t |-> t, some |-> TRUE]

Checker(verify, warn, detect) ==
    [verify |-> verify, warn |-> warn, detect |-> detect]

\* the settings of SecurityChecker::default and of the default configuration
DefaultChecker == Checker(FALSE, TRUE, TRUE)

\* a Processor as its builders configure it
Processor(dry, par, cacheOn, incr, lastScan, chk) ==
    [dry |-> dry, par |-> par, cache |-> cacheOn, incr |-> incr,
     last |-> lastScan, chk |-> chk]

\* the Processor that run_scan builds (scan.rs:22-37)
ScanProcessor(par) == Processor(FALSE, par, TRUE, FALSE, NoTime, DefaultChecker)

Contents == {"c0", "c1"}

NoEntry == [checksum |-> "none", version |-> NoLink]

Idle == [phase |-> "idle", dry |-> FALSE, par |-> FALSE, cache |-> FALSE,
         incr |-> FALSE, last |-> NoTime, chk |-> DefaultChecker, gpg |-> TRUE]

EmptyCache == [b \in Bundles |-> NoEntry]

EmptyReport == [processed |-> {}, failed |-> {}, skipped |-> {}, cached_hits |-> 0]

FailStates == {"fail_VersionExists", "fail_Io", "fail_Extraction", "fail_Security"}
Terminal == {"none", "skipped", "hit", "ok"} \cup FailStates

\* --------------------------------------------------------- SecurityChecker
\* f = the facts about the file, gpg = whether the gpg program can be started
SecurityReport_new ==
    [checksum_verified |-> FALSE, signature_present |-> FALSE,
     signature_verified |-> "None", sandboxing_detected |-> FALSE,
     overall_status |-> "Secure"]

verify_checksum(f) == f.readable

has_signature_file(f) == f.sig # "none"

\* "Err" = the gpg command could not be started
verify_signature(f, gpg) ==
    IF f.sig = "none" THEN "false"
    ELSE IF ~gpg THEN "Err"
    ELSE IF f.sig = "good" THEN "true" ELSE "false"

\* "Err" = the bundle could not be started for its self-extraction
detect_sandboxing_usage(f) ==
    IF f.sandbox = "nospawn" THEN "Err"
    ELSE IF f.sandbox = "exitfail" THEN "false"
    ELSE IF f.sandbox = "yes" THEN "true" ELSE "false"

\* assess_overall_security with the warnings collected before the signature
\* result is looked at
assess_overall_security_warn_first(chk, r) ==
    IF ~r.checksum_verified THEN "Error"
    ELSE IF \/ chk.warn /\ ~r.signature_present
            \/ chk.detect /\ ~r.sandboxing_detected
         THEN "Warning"
         ELSE IF r.signature_verified = "false" THEN "Error" ELSE "Secure"

assess_overall_security(chk, r) ==
    IF ~r.checksum_verified THEN "Error"
    ELSE IF r.signature_verified = "false" THEN "Error"
    ELSE IF \/ chk.warn /\ ~r.signature_present
            \/ chk.detect /\ ~r.sandboxing_detected
         THEN "Warning"
         ELSE "Secure"

check_appimage(chk, f, gpg) ==
    LET r1 == [SecurityReport_new EXCEPT !.checksum_verified = verify_checksum(f)]
        r2 == [r1 EXCEPT !.signature_present = has_signature_file(f)]
        sv == IF r2.signature_present /\ chk.verify
              THEN verify_signature(f, gpg) ELSE "None"
        sb == IF chk.detect THEN detect_sandboxing_usage(f) ELSE "false"
    IN  IF sv = "Err" \/ sb = "Err"
        THEN [res |-> "Err", report |-> SecurityReport_new]
        ELSE LET r4 == [r2 EXCEPT !.signature_verified = sv,
                                  !.sandboxing_detected = (sb = "true")]
             IN  [res |-> "Ok",
                  report |-> [r4 EXCEPT !.overall_status =
                                            assess_overall_security(chk, r4)]]

\* ------------------------------------------------------------ MetadataCache
is_cached(cache, b, checksum) ==
    cache[b] # NoEntry /\ cache[b].checksum = checksum

add_entry(cache, b, checksum, version) ==
    [cache EXCEPT ![b] = [checksum |-> checksum, version |-> version]]

\* ---------------------------------------------------------------- Processor
TicksPerSecond == 2

\* extract_version_from_appimage at wall-clock time now
extract_version_from_appimage(b, now) ==
    IF FileVer(b) # NoVer THEN FileVer(b)
    ELSE TsLabel(now \div TicksPerSecond)

\* cache_entry_is_usable without the test that the launcher symlink exists
cache_entry_is_usable_no_symlink(app) ==
    /\ desktop[app] # "absent"
    /\ desktop[app] = "launcher"

cache_entry_is_usable(app) ==
    /\ desktop[app] # "absent"
    /\ LinkExists(launcher[app], dirs[app])
    /\ desktop[app] = "launcher"

\* the cache check of process_single_appimage_cached: TRUE = usable hit
CacheHit(cache, cacheOn, b) ==
    /\ cacheOn
    /\ is_cached(cache, b, content[b])
    /\ cache_entry_is_usable(AppOf(b))

\* Processor::create_symlink onto the launcher path, target the payload of
\* label v; d = version directories at that moment
create_symlink(link, d, v) ==
    IF LinkExists(link, d) \/ link = NoLink
    THEN [ok |-> TRUE, link |-> v]
    ELSE [ok |-> FALSE, link |-> link]

\* extract_metadata: the bundle's self-extraction must exit with success
extract_metadata(b) == Health(b) = "good"

\* should_skip_incremental for a file of modification time mt
should_skip_incremental_le(lastScan, mt) == lastScan.some /\ mt <= lastScan.t

should_skip_incremental(lastScan, mt) == lastScan.some /\ mt < lastScan.t

\* the Mutex guard of worker b goes out of scope
MutexGuard_kept(b) == b

MutexGuard_drop(b) == "free"

\* run_scan's result for a report that process_all returned (scan.rs:38-51)
run_scan(rep) == "Ok"

\* run_and_report (main.rs:65-73)
run_and_report(res) == IF res = "Ok" THEN "SUCCESS" ELSE "FAILURE"

\* outcome of process_single_appimage_cached(b) run on its own from the
\* current state by Processor p
SoloOutcome(b, p, gpg) ==
    IF CacheHit(cacheFile, p.cache, b) THEN "hit"
    ELSE IF check_appimage(p.chk, SecFacts(b), gpg).res = "Err" THEN "fail_Security"
    ELSE IF p.dry THEN "ok"
    ELSE LET v == extract_version_from_appimage(b, clock[AppOf(b)])
             r == install_version(AppOf(b), v)
         IN  IF r.res # "Ok" THEN "fail_" \o r.res
             ELSE IF ~extract_metadata(b) THEN "fail_Extraction"
             ELSE IF ~create_symlink(launcher[AppOf(b)], r.dirs, v).ok THEN "fail_Io"
             ELSE "ok"

\* report.processed with every failure dropped from the batch result
CollectProcessed_none_on_failure(p) ==
    IF \E b \in Bundles : p[b] \in FailStates THEN {}
    ELSE {b \in Bundles : p[b] \in {"hit", "ok"}}

\* report.processed from the workers' results (processor.rs:176-181)
CollectProcessed(p) == {b \in Bundles : p[b] \in {"hit", "ok"}}

\* report.failed: (path, reason) per failed result (processor.rs:182-185)
CollectFailed(p) == {<<b, p[b]>> : b \in {x \in Bundles : p[x] \in FailStates}}

\* the sequential batch takes the last bundle of the enumeration first
FirstPending_last ==
    LET idx == {i \in 1..Len(BundleOrder) : pc[BundleOrder[i]] \notin Terminal}
    IN  IF idx = {} THEN "none"
        ELSE BundleOrder[CHOOSE i \in idx : \A j \in idx : i >= j]

\* the bundle whose pipeline a sequential batch runs next
FirstPending ==
    LET idx == {i \in 1..Len(BundleOrder) : pc[BundleOrder[i]] \notin Terminal}
    IN  IF idx = {} THEN "none"
        ELSE BundleOrder[CHOOSE i \in idx : \A j \in idx : i <= j]

\* the batch stops dispatching as soon as one bundle has failed
MayStep_until_failure(b) ==
    /\ run.phase = "running"
    /\ run.par \/ FirstPending = b
    /\ \A x \in Bundles : pc[x] \notin FailStates

\* process_parallel lets any worker advance; process_sequential maps in order
MayStep(b) ==
    /\ run.phase = "running"
    /\ run.par \/ FirstPending = b

\* ------------------------------------------------------------- operations
\* a direct install_version call (update.rs:241) with a valid bundle
InstallVersion(app, v) ==
    /\ clock[app] < MaxClock
    /\ LET r == install_version(app, v) IN
       /\ ledger' = [ledger EXCEPT ![app] = r.ledger]
       /\ dirs' = [dirs EXCEPT ![app] = r.dirs]
       /\ current' = [current EXCEPT ![app] = r.current]
       /\ clock' = IF r.ticked THEN [clock EXCEPT ![app] = @ + 1] ELSE clock
       /\ last' = Call("install", app, v, r.res)
    /\ UNCHANGED <<maxVersions, autoCleanup>>
    /\ UNCHANGED procVars

\* a switch_version call, its result observed by the caller
SwitchVersion(app, v) ==
    /\ LET r == switch_version(app, v) IN
       /\ ledger' = [ledger EXCEPT ![app] = r.ledger]
       /\ current' = [current EXCEPT ![app] = r.current]
       /\ last' = Call("switch", app, v, r.res)
    /\ UNCHANGED <<dirs, clock, maxVersions, autoCleanup>>
    /\ UNCHANGED procVars

\* a remove_version call, its result observed by the caller
RemoveVersion(app, v) ==
    /\ LET r == remove_version(app, v) IN
       /\ ledger' = [ledger EXCEPT ![app] = r.ledger]
       /\ dirs' = [dirs EXCEPT ![app] = r.dirs]
       /\ last' = Call("remove", app, v, r.res)
    /\ UNCHANGED <<current, clock, maxVersions, autoCleanup>>
    /\ UNCHANGED procVars

\* the command line's switch between two scans (main.rs:212); the result is
\* only printed
run_switch_version(app, v) ==
    /\ run.phase = "idle"
    /\ LET r == switch_version(app, v) IN
       /\ ledger' = [ledger EXCEPT ![app] = r.ledger]
       /\ current' = [current EXCEPT ![app] = r.current]
    /\ UNCHANGED <<dirs, clock, maxVersions, autoCleanup, last>>
    /\ UNCHANGED procVars

\* the command line's remove between two scans (main.rs:222)
run_remove_version(app, v) ==
    /\ run.phase = "idle"
    /\ LET r == remove_version(app, v) IN
       /\ ledger' = [ledger EXCEPT ![app] = r.ledger]
       /\ dirs' = [dirs EXCEPT ![app] = r.dirs]
    /\ UNCHANGED <<current, clock, maxVersions, autoCleanup, last>>
    /\ UNCHANGED procVars

\* what one application has on disk: ledger, version directories, current
\* symlink, launcher symlink, desktop entry, and the clock of its ledger
AppState(app) ==
    [ledger |-> ledger[app], dirs |-> dirs[app], current |-> current[app],
     clock |-> clock[app], launcher |-> launcher[app], desktop |-> desktop[app]]

\* the installation as it is now, with the cache c the Processor has loaded
Snapshot(c) == [apps |-> [app \in Apps |-> AppState(app)], cache |-> c]

\* no batch is running
NoStart ==
    [apps |-> [app \in Apps |->
                 [ledger |-> <<>>, dirs |-> {}, current |-> NoLink, clock |-> 0,
                  launcher |-> NoLink, desktop |-> "absent"]],
     cache |-> EmptyCache]

\* ---- Processor::process_all ------------------------------------------------
\* enumeration of the staging directory and the incremental-scan filter; old is
\* the set of files whose mtime is before last_scan_time (none if it is unset)
StartRun(p, gpg) ==
    /\ run.phase = "idle"
    /\ nruns < MaxRuns
    /\ nruns' = nruns + 1
    /\ LET skip == {b \in staged :
                      p.incr /\ should_skip_incremental(p.last, MTime(b))}
           batch == staged \ skip
       IN  /\ pc' = [b \in Bundles |-> IF b \in skip THEN "skipped"
                                       ELSE IF b \in batch THEN "queued"
                                       ELSE "none"]
           /\ solo' = [b \in Bundles |-> IF b \in batch
                                         THEN SoloOutcome(b, p, gpg)
                                         ELSE "none"]
    /\ run' = [phase |-> "running", dry |-> p.dry, par |-> p.par,
               cache |-> p.cache, incr |-> p.incr, last |-> p.last,
               chk |-> p.chk, gpg |-> gpg]
    /\ cacheMem' = IF p.cache THEN cacheFile ELSE EmptyCache
    /\ saves' = 0
    /\ start' = Snapshot(IF p.cache THEN cacheFile ELSE EmptyCache)
    /\ UNCHANGED <<staged, content, cacheFile, launcher, desktop, lver, nedits,
                   report, lock, exitStatus, sec, call, loaded>>
    /\ UNCHANGED vmVars

\* a worker takes the cache Mutex for its lookup or for its cache update
\* (processor.rs:458, 482)
Acquire(b) ==
    /\ MayStep(b)
    /\ run.cache
    /\ pc[b] \in {"queued", "cacheupd"}
    /\ lock = "free"
    /\ lock' = b
    /\ UNCHANGED <<staged, content, cacheFile, cacheMem, launcher, desktop, run,
                   pc, lver, solo, nruns, nedits, report, saves, exitStatus, sec, call, loaded, start>>
    /\ UNCHANGED vmVars

\* process_single_appimage_cached up to the cache check (processor.rs:453-475);
\* the Mutex is taken here unless the worker already holds it
Lookup(b) ==
    /\ MayStep(b)
    /\ pc[b] = "queued"
    /\ lock \in {"free", b}
    /\ pc' = [pc EXCEPT ![b] = IF CacheHit(cacheMem, run.cache, b)
                               THEN "hit" ELSE "install"]
    /\ lock' = MutexGuard_drop(b)
    /\ UNCHANGED <<staged, content, cacheFile, cacheMem, launcher, desktop, run,
                   lver, solo, nruns, nedits, report, saves, exitStatus, sec, call, loaded, start>>
    /\ UNCHANGED vmVars

\* process_single_appimage up to install_version (processor.rs:216-250)
Install(b) ==
    /\ MayStep(b)
    /\ pc[b] = "install"
    /\ IF check_appimage(run.chk, SecFacts(b), run.gpg).res = "Err"
       THEN /\ pc' = [pc EXCEPT ![b] = "fail_Security"]
            /\ UNCHANGED <<lver, vmVars>>
       ELSE IF run.dry
       THEN /\ pc' = [pc EXCEPT ![b] = "cacheupd"]
            /\ UNCHANGED <<lver, vmVars>>
       ELSE LET v == extract_version_from_appimage(b, clock[AppOf(b)])
                r == install_version(AppOf(b), v)
            IN  /\ ledger' = [ledger EXCEPT ![AppOf(b)] = r.ledger]
                /\ dirs' = [dirs EXCEPT ![AppOf(b)] = r.dirs]
                /\ current' = [current EXCEPT ![AppOf(b)] = r.current]
                /\ clock' = IF r.ticked THEN [clock EXCEPT ![AppOf(b)] = @ + 1]
                             ELSE clock
                /\ UNCHANGED last
                /\ pc' = [pc EXCEPT ![b] = IF r.res = "Ok" THEN "publish"
                                           ELSE "fail_" \o r.res]
                /\ lver' = [lver EXCEPT ![b] = IF r.res = "Ok" THEN v ELSE NoLink]
                /\ UNCHANGED <<maxVersions, autoCleanup>>
    /\ UNCHANGED <<staged, content, cacheFile, cacheMem, launcher, desktop, run,
                   solo, nruns, nedits, report, lock, saves, exitStatus, sec, call, loaded, start>>

\* extract_metadata, create_symlink, create_desktop_entry (processor.rs:252-270)
Publish(b) ==
    /\ MayStep(b)
    /\ pc[b] = "publish"
    /\ LET app == AppOf(b)
           lk == create_symlink(launcher[app], dirs[app], lver[b])
       IN  IF ~extract_metadata(b)
           THEN /\ pc' = [pc EXCEPT ![b] = "fail_Extraction"]
                /\ UNCHANGED <<launcher, desktop>>
           ELSE IF ~lk.ok
           THEN /\ pc' = [pc EXCEPT ![b] = "fail_Io"]
                /\ UNCHANGED <<launcher, desktop>>
           ELSE /\ pc' = [pc EXCEPT ![b] = "cacheupd"]
                /\ launcher' = [launcher EXCEPT ![app] = lk.link]
                /\ desktop' = [desktop EXCEPT ![app] = "launcher"]
    /\ lver' = [lver EXCEPT ![b] = NoLink]
    /\ UNCHANGED <<staged, content, cacheFile, cacheMem, run, solo, nruns, nedits,
                   report, lock, saves, exitStatus, sec, call, loaded, start>>
    /\ UNCHANGED vmVars

\* the cache update of process_single_appimage_cached (processor.rs:480-498)
CacheUpdate(b) ==
    /\ MayStep(b)
    /\ pc[b] = "cacheupd"
    /\ lock \in {"free", b}
    /\ lock' = MutexGuard_drop(b)
    /\ cacheMem' = IF run.cache
                   THEN add_entry(cacheMem, b, content[b],
                                  extract_version_from_appimage(b, clock[AppOf(b)]))
                   ELSE cacheMem
    /\ pc' = [pc EXCEPT ![b] = "ok"]
    /\ UNCHANGED <<staged, content, cacheFile, launcher, desktop, run, lver,
                   solo, nruns, nedits, report, saves, exitStatus, sec, call, loaded, start>>
    /\ UNCHANGED vmVars

\* the cache is saved at the end of a batch only if no bundle failed
ShouldSave_only_clean(cacheOn, rep) == cacheOn /\ rep.failed = {}

\* whether process_all saves the cache at its end (processor.rs:204)
ShouldSave(cacheOn, rep) == cacheOn

\* result collection and cache.save() (processor.rs:175-212); saveOk = whether
\* the write of the cache file succeeds
FinishRun(saveOk) ==
    /\ run.phase = "running"
    /\ \A b \in Bundles : pc[b] \in Terminal
    /\ report' = [processed |-> CollectProcessed(pc),
                  failed |-> CollectFailed(pc),
                  skipped |-> {b \in Bundles : pc[b] = "skipped"},
                  cached_hits |-> 0]
    /\ cacheFile' = IF ShouldSave(run.cache, report') /\ saveOk
                    THEN cacheMem ELSE cacheFile
    /\ saves' = IF ShouldSave(run.cache, report') THEN saves + 1 ELSE saves
    /\ exitStatus' = run_and_report(run_scan(report'))
    /\ UNCHANGED <<lock, sec, call, loaded>>
    /\ start' = NoStart
    /\ cacheMem' = EmptyCache
    /\ run' = Idle
    /\ pc' = [b \in Bundles |-> "none"]
    /\ solo' = [b \in Bundles |-> "none"]
    /\ UNCHANGED <<staged, content, launcher, desktop, lver, nruns, nedits>>
    /\ UNCHANGED vmVars

\* ---- environment -----------------------------------------------------------
\* the Mover deposits a bundle into the staging directory
Deposit(b) ==
    /\ run.phase = "idle"
    /\ b \notin staged
    /\ staged' = staged \cup {b}
    /\ UNCHANGED <<content, cacheFile, cacheMem, launcher, desktop, run, pc, lver,
                   solo, nruns, nedits, report>>
    /\ UNCHANGED scanVars
    /\ UNCHANGED vmVars

\* a staged file is replaced by one with other content
Modify(b, c) ==
    /\ run.phase = "idle"
    /\ nedits < MaxEdits
    /\ nedits' = nedits + 1
    /\ b \in staged
    /\ content[b] # c
    /\ content' = [content EXCEPT ![b] = c]
    /\ UNCHANGED <<staged, cacheFile, cacheMem, launcher, desktop, run, pc, lver,
                   solo, nruns, report>>
    /\ UNCHANGED scanVars
    /\ UNCHANGED vmVars

\* the user deletes or edits a published desktop entry
TamperDesktop(app, to) ==
    /\ run.phase = "idle"
    /\ nedits < MaxEdits
    /\ nedits' = nedits + 1
    /\ desktop[app] = "launcher"
    /\ to \in {"absent", "other"}
    /\ desktop' = [desktop EXCEPT ![app] = to]
    /\ UNCHANGED <<staged, content, cacheFile, cacheMem, launcher, run, pc, lver,
                   solo, nruns, report>>
    /\ UNCHANGED scanVars
    /\ UNCHANGED vmVars

\* the user deletes a launcher symlink
DeleteLauncher(app) ==
    /\ run.phase = "idle"
    /\ nedits < MaxEdits
    /\ nedits' = nedits + 1
    /\ launcher[app] # NoLink
    /\ launcher' = [launcher EXCEPT ![app] = NoLink]
    /\ UNCHANGED <<staged, content, cacheFile, cacheMem, desktop, run, pc, lver,
                   solo, nruns, report>>
    /\ UNCHANGED scanVars
    /\ UNCHANGED vmVars

\* SecurityChecker::check_appimage applied to the file under assessment
CheckAppimage ==
    /\ sec.out = "pending"
    /\ sec' = [sec EXCEPT !.out = "done",
                          !.result = check_appimage(sec.chk, sec.facts, sec.gpg)]
    /\ UNCHANGED <<staged, content, cacheFile, cacheMem, launcher, desktop, run,
                   pc, lver, solo, nruns, nedits, report, lock, saves, exitStatus,
                   call, loaded, start>>
    /\ UNCHANGED vmVars

\* no file is under assessment
NoCheck ==
    [chk |-> DefaultChecker, facts |-> SecFacts("a1"), gpg |-> TRUE,
     out |-> "none", result |-> [res |-> "Err", report |-> SecurityReport_new]]

\* an empty installation
InitFiles ==
    /\ ledger = [a \in Apps |-> <<>>]
    /\ dirs = [a \in Apps |-> {}]
    /\ current = [a \in Apps |-> NoLink]
    /\ clock = [a \in Apps |-> 0]
    /\ maxVersions \in 1..MaxKeep
    /\ autoCleanup \in BOOLEAN
    /\ last = Call("none", "a", NoLink, "Ok")
    /\ staged = {}
    /\ content = [b \in Bundles |-> "c0"]
    /\ cacheFile = EmptyCache
    /\ cacheMem = EmptyCache
    /\ launcher = [a \in Apps |-> NoLink]
    /\ desktop = [a \in Apps |-> "absent"]
    /\ run = Idle
    /\ pc = [b \in Bundles |-> "none"]
    /\ lver = [b \in Bundles |-> NoLink]
    /\ solo = [b \in Bundles |-> "none"]
    /\ nruns = 0
    /\ nedits = 0
    /\ report = EmptyReport
    /\ lock = "free"
    /\ saves = 0
    /\ exitStatus = "none"
    /\ loaded = [b \in Bundles |-> <<>>]
    /\ start = NoStart

\* no text function is being applied
NoCall == [fn |-> "none", arg |-> <<>>, done |-> FALSE, out |-> <<>>]

Init == InitFiles /\ sec = NoCheck /\ call = NoCall

\* the Version Manager driven directly on one application, one call at a time
NextVM ==
    \/ \E v \in FileLabels : InstallVersion("a", v)
    \/ \E v \in FileLabels : SwitchVersion("a", v)
    \/ \E v \in FileLabels : RemoveVersion("a", v)

SpecVM == Init /\ [][NextVM]_vars

\* scans of the staging directory, interleaved with the version commands of
\* the command line and with changes made by the user between scans
Next ==
    \/ \E par \in BOOLEAN : StartRun(ScanProcessor(par), TRUE)
    \/ \E b \in Bundles : Lookup(b)
    \/ \E b \in Bundles : Install(b)
    \/ \E b \in Bundles : Publish(b)
    \/ \E b \in Bundles : CacheUpdate(b)
    \/ FinishRun(TRUE)
    \/ \E b \in Versioned : Deposit(b)
    \/ \E b \in Bundles, c \in Contents : Modify(b, c)
    \/ \E app \in Apps, to \in {"absent", "other"} : TamperDesktop(app, to)
    \/ \E app \in Apps : DeleteLauncher(app)
    \/ \E app \in Apps, v \in FileLabels : run_switch_version(app, v)
    \/ \E app \in Apps, v \in FileLabels : run_remove_version(app, v)

\* the scans run under the default configuration of automatic cleanup
InitScan == Init /\ autoCleanup

Spec == InitScan /\ [][Next]_vars

\* the same with every scan in sequential mode
NextSeq ==
    \/ StartRun(ScanProcessor(FALSE), TRUE)
    \/ \E b \in Bundles : Lookup(b)
    \/ \E b \in Bundles : Install(b)
    \/ \E b \in Bundles : Publish(b)
    \/ \E b \in Bundles : CacheUpdate(b)
    \/ FinishRun(TRUE)
    \/ \E b \in Versioned : Deposit(b)
    \/ \E b \in Bundles, c \in Contents : Modify(b, c)
    \/ \E app \in Apps, to \in {"absent", "other"} : TamperDesktop(app, to)
    \/ \E app \in Apps : DeleteLauncher(app)
    \/ \E app \in Apps, v \in FileLabels : run_switch_version(app, v)
    \/ \E app \in Apps, v \in FileLabels : run_remove_version(app, v)

SpecSeq == InitScan /\ [][NextSeq]_vars

\* ---- the Security Assessor on its own --------------------------------------
\* every setting of the checker, every kind of file and both states of gpg
SecInputs ==
    [chk : {Checker(v, w, d) : v \in BOOLEAN, w \in BOOLEAN, d \in BOOLEAN},
     facts : [readable : BOOLEAN, sig : {"none", "good", "bad"},
              sandbox : {"yes", "no", "exitfail", "nospawn"}],
     gpg : BOOLEAN,
     out : {"pending"},
     result : {NoCheck.result}]

InitSec == InitFiles /\ sec \in SecInputs /\ call = NoCall

NextSec == CheckAppimage

SpecSec == InitSec /\ [][NextSec]_vars

\* ---- sequential live scans under any SecurityChecker ------------------------
Checkers == {Checker(v, w, d) : v \in BOOLEAN, w \in BOOLEAN, d \in BOOLEAN}

NextSecure ==
    \/ \E chk \in Checkers, gpg \in BOOLEAN :
          StartRun(Processor(FALSE, FALSE, TRUE, FALSE, NoTime, chk), gpg)
    \/ \E b \in Bundles : Lookup(b)
    \/ \E b \in Bundles : Install(b)
    \/ \E b \in Bundles : Publish(b)
    \/ \E b \in Bundles : CacheUpdate(b)
    \/ FinishRun(TRUE)
    \/ \E b \in Versioned : Deposit(b)

SpecSecure == InitScan /\ [][NextSecure]_vars

\* ---- sequential scans, dry or live, with or without a cache -----------------
NextDry ==
    \/ \E dry \in BOOLEAN, cacheOn \in BOOLEAN :
          StartRun(Processor(dry, FALSE, cacheOn, FALSE, NoTime, DefaultChecker), TRUE)
    \/ \E b \in Bundles : Lookup(b)
    \/ \E b \in Bundles : Install(b)
    \/ \E b \in Bundles : Publish(b)
    \/ \E b \in Bundles : CacheUpdate(b)
    \/ \E saveOk \in BOOLEAN : FinishRun(saveOk)
    \/ \E b \in Versioned : Deposit(b)

SpecDry == InitScan /\ [][NextDry]_vars

\* ---- sequential scans with incremental scanning on or off ------------------
LastScans == {NoTime, SomeTime(1), SomeTime(2)}

NextIncr ==
    \/ \E incr \in BOOLEAN, lastScan \in LastScans :
          StartRun(Processor(FALSE, FALSE, TRUE, incr, lastScan, DefaultChecker), TRUE)
    \/ \E b \in Bundles : Lookup(b)
    \/ \E b \in Bundles : Install(b)
    \/ \E b \in Bundles : Publish(b)
    \/ \E b \in Bundles : CacheUpdate(b)
    \/ FinishRun(TRUE)
    \/ \E b \in Versioned : Deposit(b)

SpecIncr == InitScan /\ [][NextIncr]_vars

\* ---- parallel scans with the workers' uses of the cache Mutex as steps -------
NextLock ==
    \/ StartRun(ScanProcessor(TRUE), TRUE)
    \/ \E b \in Bundles : Acquire(b)
    \/ \E b \in Bundles : lock = b /\ Lookup(b)
    \/ \E b \in Bundles : Install(b)
    \/ \E b \in Bundles : Publish(b)
    \/ \E b \in Bundles : lock = b /\ CacheUpdate(b)
    \/ FinishRun(TRUE)
    \/ \E b \in Versioned : Deposit(b)

SpecLock == InitScan /\ [][NextLock]_vars

\* ---- scans whose external processes may never exit, under fair scheduling --
\* the bundle's self-extraction, started with Command::status() by the
\* sandboxing test (security.rs:165-168) or by extract_metadata
\* (processor.rs:310-315), never exits: the worker waits for ever
Hang(b) ==
    /\ MayStep(b)
    /\ pc[b] \in {"install", "publish"}
    /\ pc' = [pc EXCEPT ![b] = "hung"]
    /\ UNCHANGED <<staged, content, cacheFile, cacheMem, launcher, desktop, run,
                   lver, solo, nruns, nedits, report>>
    /\ UNCHANGED scanVars
    /\ UNCHANGED vmVars

LiveProcessor(par) == Processor(FALSE, par, TRUE, TRUE, SomeTime(1), DefaultChecker)

NextLive ==
    \/ \E par \in BOOLEAN : StartRun(LiveProcessor(par), TRUE)
    \/ \E b \in Bundles : Lookup(b)
    \/ \E b \in Bundles : Install(b)
    \/ \E b \in Bundles : Publish(b)
    \/ \E b \in Bundles : CacheUpdate(b)
    \/ FinishRun(TRUE)
    \/ \E b \in Versioned : Deposit(b)
    \/ \E b \in Bundles : Hang(b)

\* every worker that can take its next step takes it, and process_all returns
\* once the results are in
FairLive ==
    /\ \A b \in Bundles : /\ WF_vars(Lookup(b)) /\ WF_vars(Install(b))
                           /\ WF_vars(Publish(b)) /\ WF_vars(CacheUpdate(b))
    /\ WF_vars(FinishRun(TRUE))

SpecLive == InitScan /\ [][NextLive]_vars /\ FairLive

\* ------------------------------------------------------------ DesktopEntry
\* A text is a sequence of characters; "LF", "CR" and "BS" stand for the line
\* feed, the carriage return and the backslash, and a fixed piece of the
\* format string ("Exec=", ...) is written as one character.
RECURSIVE Concat(_)
Concat(ss) == IF ss = <<>> THEN <<>> ELSE Head(ss) \o Concat(Tail(ss))

\* slice::join
RECURSIVE join(_, _)
join(ss, sep) ==
    IF ss = <<>> THEN <<>>
    ELSE IF Len(ss) = 1 THEN Head(ss)
    ELSE Head(ss) \o sep \o join(Tail(ss), sep)

\* str::replace(from, to) for a single character `from`
replace_char(v, from, to) ==
    Concat([i \in 1..Len(v) |-> IF v[i] \in from THEN to ELSE <<v[i]>>])

\* only the line feed is replaced
sanitize_desktop_value_lf_only(value) ==
    replace_char(replace_char(value, {"BS"}, <<"BS", "BS">>), {"LF"}, <<" ">>)

sanitize_desktop_value(value) ==
    replace_char(replace_char(value, {"BS"}, <<"BS", "BS">>), {"LF", "CR"}, <<" ">>)

to_file_content(e) ==
    LET name == sanitize_desktop_value(e.name)
        exec_path == sanitize_desktop_value(e.exec_path)
        icon_path == sanitize_desktop_value(e.icon_path)
        categories ==
            join([i \in 1..Len(e.categories) |->
                    sanitize_desktop_value(e.categories[i])], <<";">>)
    IN  <<"[Desktop Entry]", "LF", "Type=Application", "LF", "Name=">> \o name
        \o <<"LF", "Exec=">> \o exec_path
        \o <<"LF", "Icon=">> \o icon_path
        \o <<"LF", "Terminal=", IF e.terminal THEN "true" ELSE "false">>
        \o <<"LF", "Categories=">> \o categories \o <<"LF">>

\* DesktopEntry::with_categories
with_categories(name, exec_path, icon_path, categories) ==
    [name |-> name, exec_path |-> exec_path, icon_path |-> icon_path,
     terminal |-> FALSE, categories |-> categories]

\* the texts of at most n characters over the characters cs
Texts(cs, n) == UNION {[1..k -> cs] : k \in 0..n}

DesktopChars == {"a", "BS", "LF", "CR", "Exec="}

DesktopInputs ==
    {with_categories(n, x, i, c) :
        n \in Texts(DesktopChars, MaxText),
        x \in Texts(DesktopChars, MaxText - 1),
        i \in {<<>>, <<"CR">>},
        c \in {<<>>} \cup {<<t>> : t \in {<<"a">>, <<"LF">>, <<"CR">>}}
                     \cup {<<t, <<"a">>>> : t \in {<<"a">>, <<"LF">>, <<"CR">>}}}

\* the text function under study returns
ToFileContent ==
    /\ call.fn = "to_file_content" /\ ~call.done
    /\ call' = [call EXCEPT !.done = TRUE, !.out = to_file_content(call.arg)]
    /\ UNCHANGED <<staged, content, cacheFile, cacheMem, launcher, desktop, run,
                   pc, lver, solo, nruns, nedits, report, lock, saves, exitStatus,
                   sec, loaded, start>>
    /\ UNCHANGED vmVars

InitDesktop ==
    /\ InitFiles /\ sec = NoCheck /\ maxVersions = 1 /\ autoCleanup
    /\ call \in [fn : {"to_file_content"}, arg : DesktopInputs,
                 done : {FALSE}, out : {<<>>}]

NextDesktop == ToFileContent

SpecDesktop == InitDesktop /\ [][NextDesktop]_vars

\* ------------------------------------------------------------ normalization
\* a file name is a text of one-character strings
Digits == {"0", "1", "2", "3", "4", "5", "6", "7", "8", "9"}

\* str::to_lowercase on the letters that occur
to_lowercase(s) ==
    [i \in 1..Len(s) |-> IF s[i] = "A" THEN "a" ELSE IF s[i] = "I" THEN "i" ELSE s[i]]

StartsWith(s, pat) == Len(s) >= Len(pat) /\ SubSeq(s, 1, Len(pat)) = pat

\* str::replace(pat, to): every non-overlapping occurrence, from the left
RECURSIVE replace_str(_, _, _)
replace_str(s, pat, to) ==
    IF s = <<>> THEN <<>>
    ELSE IF StartsWith(s, pat)
         THEN to \o replace_str(SubSeq(s, Len(pat) + 1, Len(s)), pat, to)
         ELSE <<Head(s)>> \o replace_str(Tail(s), pat, to)

\* (?i)(x86_64|amd64|i386|linux|setup): the first alternative that matches
ArchWords ==
    << <<"x", "8", "6", "_", "6", "4">>, <<"a", "m", "d", "6", "4">>,
       <<"i", "3", "8", "6">>, <<"l", "i", "n", "u", "x">>,
       <<"s", "e", "t", "u", "p">> >>

ARCH_REGEX(s) ==
    LET hits == {i \in 1..Len(ArchWords) : StartsWith(to_lowercase(s), ArchWords[i])}
    IN  IF hits = {} THEN 0
        ELSE Len(ArchWords[CHOOSE i \in hits : \A j \in hits : i <= j])

\* ARCH_REGEX.replace_all(s, ""): ARCH_REGEX(t) is the length of the match
\* that begins at the head of t, 0 for none
RECURSIVE strip_arch(_)
strip_arch(s) ==
    IF s = <<>> THEN <<>>
    ELSE IF ARCH_REGEX(s) > 0 THEN strip_arch(SubSeq(s, ARCH_REGEX(s) + 1, Len(s)))
    ELSE <<Head(s)>> \o strip_arch(Tail(s))

\* [0-9]+ at the head of s: the length of the longest run of digits
RECURSIVE DigitRun(_)
DigitRun(s) ==
    IF s # <<>> /\ Head(s) \in Digits THEN 1 + DigitRun(Tail(s)) ELSE 0

\* (\.[0-9]+)* at the head of s
RECURSIVE DotGroups(_)
DotGroups(s) ==
    IF s # <<>> /\ Head(s) = "." /\ DigitRun(Tail(s)) > 0
    THEN 1 + DigitRun(Tail(s)) + DotGroups(SubSeq(s, 2 + DigitRun(Tail(s)), Len(s)))
    ELSE 0

\* -?v?[0-9]+(\.[0-9]+)*
VERSION_REGEX(s) ==
    LET h == IF s # <<>> /\ Head(s) = "-" THEN 1 ELSE 0
        s1 == SubSeq(s, h + 1, Len(s))
        v == IF s1 # <<>> /\ Head(s1) = "v" THEN 1 ELSE 0
        s2 == SubSeq(s1, v + 1, Len(s1))
        d == DigitRun(s2)
    IN  IF d = 0 THEN 0
        ELSE h + v + d + DotGroups(SubSeq(s2, d + 1, Len(s2)))

\* VERSION_REGEX.replace_all(s, "")
RECURSIVE strip_version(_)
strip_version(s) ==
    IF s = <<>> THEN <<>>
    ELSE IF VERSION_REGEX(s) > 0
         THEN strip_version(SubSeq(s, VERSION_REGEX(s) + 1, Len(s)))
         ELSE <<Head(s)>> \o strip_version(Tail(s))

Separators == {"-", "_", "."}

\* SEPARATOR_REGEX.replace_all(s, "-"): every run of [-_.] becomes one hyphen
RECURSIVE SEPARATOR_REGEX(_)
SEPARATOR_REGEX(s) ==
    IF s = <<>> THEN <<>>
    ELSE IF Head(s) \in Separators
         THEN IF Tail(s) # <<>> /\ Head(Tail(s)) \in Separators
              THEN SEPARATOR_REGEX(Tail(s))
              ELSE <<"-">> \o SEPARATOR_REGEX(Tail(s))
         ELSE <<Head(s)>> \o SEPARATOR_REGEX(Tail(s))

\* str::trim_matches for the characters cs (str::trim for white space)
RECURSIVE trim_matches(_, _)
trim_matches(s, cs) ==
    IF s = <<>> THEN <<>>
    ELSE IF Head(s) \in cs THEN trim_matches(Tail(s), cs)
    ELSE IF s[Len(s)] \in cs THEN trim_matches(SubSeq(s, 1, Len(s) - 1), cs)
    ELSE s

normalize_appimage_name(name) ==
    LET normalized ==
            replace_str(replace_str(to_lowercase(name),
                                    <<".", "a", "p", "p", "i", "m", "a", "g", "e">>, <<>>),
                        <<"_", "a", "p", "p", "i", "m", "a", "g", "e">>, <<>>)
        without_arch == strip_arch(normalized)
        without_version == strip_version(without_arch)
        normalized_separators == SEPARATOR_REGEX(without_version)
    IN  trim_matches(trim_matches(normalized_separators, {"-"}), {" "})

\* the pieces that the file names under study are put together from
NameTokens ==
    { <<"a", "p", "p">>, <<"l", "i", "n">>, <<"u", "x">>, <<"1">>, <<"v">>,
      <<"-">>, <<"_">>, <<".">>, <<" ">>, <<"A">>,
      <<".", "A", "p", "p", "I", "m", "a", "g", "e">> }

NameInputs == {Concat(ts) : ts \in Texts(NameTokens, MaxText + 1)}

NormalizeName ==
    /\ call.fn = "normalize_appimage_name" /\ ~call.done
    /\ call' = [call EXCEPT !.done = TRUE, !.out = normalize_appimage_name(call.arg)]
    /\ UNCHANGED <<staged, content, cacheFile, cacheMem, launcher, desktop, run,
                   pc, lver, solo, nruns, nedits, report, lock, saves, exitStatus,
                   sec, loaded, start>>
    /\ UNCHANGED vmVars

InitName ==
    /\ InitFiles /\ sec = NoCheck /\ maxVersions = 1 /\ autoCleanup
    /\ call \in [fn : {"normalize_appimage_name"}, arg : NameInputs,
                 done : {FALSE}, out : {<<>>}]

NextName == NormalizeName

SpecName == InitName /\ [][NextName]_vars

\* ---- parallel scans with install_version's load and save as two steps ------
\* process_single_appimage up to install_version's load_app_metadata and its
\* check of the loaded ledger (processor.rs:216-250, version_manager.rs:99-112)
InstallLoad(b) ==
    /\ MayStep(b)
    /\ pc[b] = "install"
    /\ LET app == AppOf(b)
           v == extract_version_from_appimage(b, clock[app])
       IN  IF check_appimage(run.chk, SecFacts(b), run.gpg).res = "Err"
           THEN /\ pc' = [pc EXCEPT ![b] = "fail_Security"]
                /\ UNCHANGED <<lver, loaded>>
           ELSE IF run.dry
           THEN /\ pc' = [pc EXCEPT ![b] = "cacheupd"]
                /\ UNCHANGED <<lver, loaded>>
           ELSE IF get_version(ledger[app], v)
           THEN /\ pc' = [pc EXCEPT ![b] = "fail_VersionExists"]
                /\ UNCHANGED <<lver, loaded>>
           ELSE /\ pc' = [pc EXCEPT ![b] = "saving"]
                /\ lver' = [lver EXCEPT ![b] = v]
                /\ loaded' = [loaded EXCEPT ![b] = ledger[app]]
    /\ UNCHANGED <<staged, content, cacheFile, cacheMem, launcher, desktop, run,
                   solo, nruns, nedits, report, lock, saves, exitStatus, sec, call, start>>
    /\ UNCHANGED vmVars

\* the rest of install_version: the copy into the version directory, the save
\* of the loaded ledger with the new record, the current link and the pruning
\* (version_manager.rs:114-134)
InstallSave(b) ==
    /\ MayStep(b)
    /\ pc[b] = "saving"
    /\ LET app == AppOf(b)
           r == install_version_saved(app, lver[b], loaded[b])
       IN  /\ ledger' = [ledger EXCEPT ![app] = r.ledger]
           /\ dirs' = [dirs EXCEPT ![app] = r.dirs]
           /\ current' = [current EXCEPT ![app] = r.current]
           /\ clock' = [clock EXCEPT ![app] = @ + 1]
           /\ pc' = [pc EXCEPT ![b] = IF r.res = "Ok" THEN "publish"
                                      ELSE "fail_" \o r.res]
           /\ lver' = [lver EXCEPT ![b] = IF r.res = "Ok" THEN @ ELSE NoLink]
    /\ loaded' = [loaded EXCEPT ![b] = <<>>]
    /\ UNCHANGED <<maxVersions, autoCleanup, last>>
    /\ UNCHANGED <<staged, content, cacheFile, cacheMem, launcher, desktop, run,
                   solo, nruns, nedits, report, lock, saves, exitStatus, sec, call, start>>

NextRace ==
    \/ StartRun(ScanProcessor(TRUE), TRUE)
    \/ \E b \in Bundles : Lookup(b)
    \/ \E b \in Bundles : InstallLoad(b)
    \/ \E b \in Bundles : InstallSave(b)
    \/ \E b \in Bundles : Publish(b)
    \/ \E b \in Bundles : CacheUpdate(b)
    \/ FinishRun(TRUE)
    \/ \E b \in Versioned : Deposit(b)

SpecRace == InitScan /\ [][NextRace]_vars

\* ---- process_sequential as a function of the state it starts from ----------
\* install_version on an application whose files are st
install_version_at(st, v) ==
    IF get_version(st.ledger, v)
    THEN [res |-> "VersionExists", st |-> st]
    ELSE LET d1 == st.dirs \cup {v}
             m1 == add_version(st.ledger, v, st.clock)
             lk == update_current_link(m1, d1, st.current)
             cl == cleanup_old_versions(m1, d1)
         IN  IF ~lk.ok
             THEN [res |-> "Io",
                   st |-> [st EXCEPT !.ledger = m1, !.dirs = d1,
                                     !.current = lk.current, !.clock = @ + 1]]
             ELSE [res |-> "Ok",
                   st |-> [st EXCEPT !.ledger = cl.ledger, !.dirs = cl.dirs,
                                     !.current = lk.current, !.clock = @ + 1]]

\* process_single_appimage_cached(b) by Processor p on an application whose
\* files are st, with cache c: the outcome, the files and the cache after it
process_single_appimage_cached(b, p, st, c) ==
    LET v == extract_version_from_appimage(b, st.clock)
        r == install_version_at(st, v)
        lk == create_symlink(r.st.launcher, r.st.dirs, v)
        \* the cache update calls extract_version_from_appimage again, at the
        \* time the pipeline has ended
        c0 == IF p.cache
              THEN add_entry(c, b, content[b], extract_version_from_appimage(b, st.clock))
              ELSE c
        c1 == IF p.cache
              THEN add_entry(c, b, content[b], extract_version_from_appimage(b, r.st.clock))
              ELSE c
    IN  IF /\ p.cache /\ is_cached(c, b, content[b])
           /\ st.desktop = "launcher" /\ LinkExists(st.launcher, st.dirs)
        THEN [out |-> "hit", st |-> st, cache |-> c]
        ELSE IF check_appimage(p.chk, SecFacts(b), p.gpg).res = "Err"
        THEN [out |-> "fail_Security", st |-> st, cache |-> c]
        ELSE IF p.dry THEN [out |-> "ok", st |-> st, cache |-> c0]
        ELSE IF r.res # "Ok" THEN [out |-> "fail_" \o r.res, st |-> r.st, cache |-> c]
        ELSE IF ~extract_metadata(b)
        THEN [out |-> "fail_Extraction", st |-> r.st, cache |-> c]
        ELSE IF ~lk.ok THEN [out |-> "fail_Io", st |-> r.st, cache |-> c]
        ELSE [out |-> "ok",
              st |-> [r.st EXCEPT !.launcher = lk.link, !.desktop = "launcher"],
              cache |-> c1]

\* process_sequential over the bundles of batch from position i of the
\* enumeration on, from installation and cache s with outcomes out so far
RECURSIVE process_sequential(_, _, _, _, _)
process_sequential(i, batch, p, s, out) ==
    IF i > Len(BundleOrder) THEN [apps |-> s.apps, cache |-> s.cache, out |-> out]
    ELSE LET b == BundleOrder[i]
             r == process_single_appimage_cached(b, p, s.apps[AppOf(b)], s.cache)
         IN  IF b \notin batch THEN process_sequential(i + 1, batch, p, s, out)
             ELSE process_sequential(i + 1, batch, p,
                      [apps |-> [s.apps EXCEPT ![AppOf(b)] = r.st], cache |-> r.cache],
                      [out EXCEPT ![b] = r.out])


\* ---- sequential live scans over files with and without a version in the name
NextStamp ==
    \/ StartRun(ScanProcessor(FALSE), TRUE)
    \/ \E b \in Bundles : Lookup(b)
    \/ \E b \in Bundles : Install(b)
    \/ \E b \in Bundles : Publish(b)
    \/ \E b \in Bundles : CacheUpdate(b)
    \/ FinishRun(TRUE)
    \/ \E b \in Bundles : Deposit(b)

SpecStamp == InitScan /\ [][NextStamp]_vars


\* ---- UpdateManager::rollback_update ------------------------------------------
\* the first record that is not active in a sequence of records, 0 if none
FirstInactive(s) ==
    IF \E i \in 1..Len(s) : ~s[i].is_active
    THEN CHOOSE i \in 1..Len(s) : ~s[i].is_active /\ \A j \in 1..(i-1) : s[j].is_active
    ELSE 0

\* rollback_update(app): the result, the version it switched to, and the
\* application's ledger and current link
rollback_update(app) ==
    LET m == ledger[app]
        sorted_versions == SortDesc(m)
        k == FirstInactive(sorted_versions)
        r == switch_version(app, sorted_versions[k].version)
    IN  IF m = <<>>
        THEN [res |-> "AppNotFound", ver |-> NoLink, ledger |-> m,
              current |-> current[app]]
        ELSE IF get_active_version(m) = NoLink \/ k = 0
        THEN [res |-> "RollbackFailed", ver |-> NoLink, ledger |-> m,
              current |-> current[app]]
        ELSE [res |-> r.res, ver |-> sorted_versions[k].version,
              ledger |-> r.ledger, current |-> r.current]

\* a rollback_update call, its result observed by the caller
RollbackUpdate(app) ==
    /\ LET r == rollback_update(app) IN
       /\ ledger' = [ledger EXCEPT ![app] = r.ledger]
       /\ current' = [current EXCEPT ![app] = r.current]
       /\ last' = Call("rollback", app, r.ver, r.res)
    /\ UNCHANGED <<dirs, clock, maxVersions, autoCleanup>>
    /\ UNCHANGED procVars

\* the Version Manager and the rollback driven directly on one application
NextRollback ==
    \/ \E v \in FileLabels : InstallVersion("a", v)
    \/ \E v \in FileLabels : SwitchVersion("a", v)
    \/ \E v \in FileLabels : RemoveVersion("a", v)
    \/ RollbackUpdate("a")

SpecRollback == Init /\ [][NextRollback]_vars


\* ---- Mover ---------------------------------------------------------------------
\* A directory is the set of its files, [name, content]; a file name is a text
\* in which "app" and "AppImage" count as one character each.
\* position of the last dot that is not the first character, 0 if none
LastDot(s) ==
    LET ds == {i \in 2..Len(s) : s[i] = "."}
    IN  IF ds = {} THEN 0 ELSE CHOOSE i \in ds : \A j \in ds : j <= i

\* Path::file_stem and Path::extension of a file name
file_stem(s) == IF LastDot(s) = 0 THEN s ELSE SubSeq(s, 1, LastDot(s) - 1)

extension(s) == IF LastDot(s) = 0 THEN <<>> ELSE SubSeq(s, LastDot(s) + 1, Len(s))

\* Path::with_extension: the extension the name has is replaced
with_extension(s, ext) ==
    file_stem(s) \o (IF ext = <<>> THEN <<>> ELSE <<".">> \o ext)

\* Path::exists for a name in directory dir
path_exists(dir, name) == \E e \in dir : e.name = name

\* fs::rename of file app to name `to` in dir: a file of that name is replaced
rename(dir, app, to) ==
    {e \in dir : e.name # to} \cup {[name |-> to, content |-> app.content]}

\* format!("{}", counter)
Decimal(n) == <<"1", "2", "3", "4", "5", "6", "7", "8", "9">>[n]

\* the loop of handle_collision from the given counter on; the code gives up
\* when the counter exceeds 10000, the model when it exceeds MaxCounter
RECURSIVE CollisionLoop(_, _, _, _)
CollisionLoop(dir, stem, ext, counter) ==
    LET new_name == stem \o <<"-", Decimal(counter)>>
        new_path == with_extension(new_name, ext)
    IN  IF ~path_exists(dir, new_path) THEN [ok |-> TRUE, path |-> new_path]
        ELSE IF counter + 1 > MaxCounter THEN [ok |-> FALSE, path |-> <<>>]
        ELSE CollisionLoop(dir, stem, ext, counter + 1)

handle_collision(dir, dest) == CollisionLoop(dir, file_stem(dest), extension(dest), 1)

\* move_single_appimage of source file app into dir
move_single_appimage(dir, app, dry_run) ==
    LET dest == app.name
        resolved == handle_collision(dir, dest)
    IN  IF dry_run THEN [ok |-> TRUE, path |-> dest, dir |-> dir]
        ELSE IF path_exists(dir, dest)
        THEN IF resolved.ok
             THEN [ok |-> TRUE, path |-> resolved.path,
                   dir |-> rename(dir, app, resolved.path)]
             ELSE [ok |-> FALSE, path |-> dest, dir |-> dir]
        ELSE [ok |-> TRUE, path |-> dest, dir |-> rename(dir, app, dest)]

\* move_appimages: the loop over the batch, with the report so far
RECURSIVE move_appimages(_, _, _, _)
move_appimages(dir, appimages, dry_run, rep) ==
    IF appimages = <<>> THEN [dir |-> dir, moved |-> rep.moved, errors |-> rep.errors]
    ELSE LET app == Head(appimages)
             r == move_single_appimage(dir, app, dry_run)
         IN  move_appimages(r.dir, Tail(appimages), dry_run,
                 IF r.ok THEN [rep EXCEPT !.moved = Append(@, r.path)]
                 ELSE [rep EXCEPT !.errors = Append(@, app)])

\* file names found in the home directories and in the staging directory
FileNames ==
    { <<"app", ".", "AppImage">>,
      <<"app", "-", "1", ".", "AppImage">>,
      <<"app", "-", "1", ".", "2", ".", "AppImage">> }

\* a staging directory, and a batch of files from different source directories
MoverInputs ==
    [dir : {{[name |-> n, content |-> <<"old", 0>>] : n \in ns} : ns \in SUBSET FileNames},
     batch : {[i \in 1..Len(ns) |-> [name |-> ns[i], content |-> <<"new", i>>]] :
                 ns \in Texts(FileNames, MaxText)},
     dry_run : BOOLEAN]

MoveAppimages ==
    /\ call.fn = "move_appimages" /\ ~call.done
    /\ call' = [call EXCEPT !.done = TRUE,
                            !.out = move_appimages(call.arg.dir, call.arg.batch,
                                                   call.arg.dry_run,
                                                   [moved |-> <<>>, errors |-> <<>>])]
    /\ UNCHANGED <<staged, content, cacheFile, cacheMem, launcher, desktop, run,
                   pc, lver, solo, nruns, nedits, report, lock, saves, exitStatus,
                   sec, loaded, start>>
    /\ UNCHANGED vmVars

InitMover ==
    /\ InitFiles /\ sec = NoCheck /\ maxVersions = 1 /\ autoCleanup
    /\ call \in [fn : {"move_appimages"}, arg : MoverInputs,
                 done : {FALSE}, out : {<<>>}]

NextMover == MoveAppimages

SpecMover == InitMover /\ [][NextMover]_vars


\* ---- run_sync: ingest, then scan -----------------------------------------------
\* run_ingest, called by run_sync: it fails before anything is moved (no root
\* privileges, no configuration, a scan or directory error) or moves what the
\* Scanner found into the staging directory; on Err run_sync returns at once
RunIngest ==
    /\ call.fn = "run_sync" /\ ~call.done
    /\ run.phase = "idle"
    /\ call' = [call EXCEPT !.done = TRUE,
                            !.out = IF call.arg.fails THEN <<"Err">> ELSE <<"Ok">>]
    /\ staged' = IF call.arg.fails THEN staged ELSE staged \cup call.arg.found
    /\ exitStatus' = IF call.arg.fails THEN run_and_report("Err") ELSE exitStatus
    /\ UNCHANGED <<content, cacheFile, cacheMem, launcher, desktop, run, pc, lver,
                   solo, nruns, nedits, report, lock, saves, sec, loaded, start>>
    /\ UNCHANGED vmVars

\* run_sync goes on to run_scan whatever run_ingest returned
MayScan_after_any_ingest == call.fn = "run_sync" /\ call.done

\* `ingest::run_ingest()?; scan::run_scan()?`: run_scan is called once
\* run_ingest has returned Ok
MayScan == call.fn = "run_sync" /\ call.done /\ call.out = <<"Ok">>

\* run_scan as run_sync calls it: process_all of the configured Processor
SyncScan(par) == MayScan /\ nruns = 0 /\ StartRun(ScanProcessor(par), TRUE)

InitSync ==
    /\ InitFiles /\ sec = NoCheck /\ autoCleanup
    /\ call \in [fn : {"run_sync"},
                 arg : [fails : BOOLEAN, found : SUBSET Versioned],
                 done : {FALSE}, out : {<<>>}]

NextSync ==
    \/ RunIngest
    \/ \E par \in BOOLEAN : SyncScan(par)
    \/ \E b \in Bundles : Lookup(b)
    \/ \E b \in Bundles : Install(b)
    \/ \E b \in Bundles : Publish(b)
    \/ \E b \in Bundles : CacheUpdate(b)
    \/ FinishRun(TRUE)

SpecSync == InitSync /\ [][NextSync]_vars

\* ------------------------------------------------------------ properties
ActiveCount(m) == Cardinality({i \in 1..Len(m) : m[i].is_active})

RecordsOf(m, v) == Cardinality({i \in 1..Len(m) : m[i].version = v})

\* C1: in every reachable state each application's ledger has at most one
\* record with is_active = TRUE.
C1_AtMostOneActive == \A app \in Apps : ActiveCount(ledger[app]) <= 1

\* a switch succeeded on a ledger of at least two records
C1_Witness ==
    /\ last.op = "switch" /\ last.res = "Ok"
    /\ Len(ledger[last.app]) >= 2
    /\ ActiveCount(ledger[last.app]) = 1

\* C2: right after a successful install_version(app, v) the ledger lists v as
\* its only active record and the current symlink points at v's directory.
C2_InstallActivates ==
    (last.op = "install" /\ last.res = "Ok") =>
        /\ get_version(ledger[last.app], last.ver)
        /\ get_active_version(ledger[last.app]) = last.ver
        /\ ActiveCount(ledger[last.app]) = 1
        /\ current[last.app] = last.ver
        /\ last.ver \in dirs[last.app]

\* an install succeeded over a ledger that already held an older version
C2_Witness ==
    /\ last.op = "install" /\ last.res = "Ok"
    /\ Len(ledger[last.app]) >= 2
    /\ current[last.app] = last.ver

C4_RemoveRefused ==
    [][\A app \in Apps, v \in FileLabels :
          ( /\ last' = Call("remove", app, v, last'.res)
            /\ ledger[app] # <<>>
            /\ Len(ledger[app]) = 1 \/ get_active_version(ledger[app]) = v )
          => /\ last'.res = "InvalidVersion"
             /\ UNCHANGED <<ledger, dirs>>]_vars

\* the removal of the active version of a ledger with two records was refused
C4_Witness ==
    /\ last.op = "remove" /\ last.res = "InvalidVersion"
    /\ Len(ledger[last.app]) >= 2
    /\ get_active_version(ledger[last.app]) = last.ver

\* C5 as claimed: switch_version(app, v) succeeds exactly when the ledger lists
\* v, making v the only active record and the target of current; when v is
\* absent it fails with VersionNotFound and changes neither ledger nor current.
C5_SwitchAsClaimed ==
    [][\A app \in Apps, v \in FileLabels :
          (last' = Call("switch", app, v, last'.res))
          => IF get_version(ledger[app], v)
             THEN /\ last'.res = "Ok"
                  /\ get_active_version(ledger'[app]) = v
                  /\ ActiveCount(ledger'[app]) = 1
                  /\ current'[app] = v
             ELSE /\ last'.res = "VersionNotFound"
                  /\ UNCHANGED <<ledger, current>>]_vars

\* C5 amended: as above, but when the application has no ledger at all the
\* failure is AppNotFound; VersionNotFound is the failure on an existing ledger
\* that does not list v.
C5_Switch ==
    [][\A app \in Apps, v \in FileLabels :
          (last' = Call("switch", app, v, last'.res))
          => IF get_version(ledger[app], v)
             THEN /\ last'.res = "Ok"
                  /\ get_active_version(ledger'[app]) = v
                  /\ ActiveCount(ledger'[app]) = 1
                  /\ current'[app] = v
             ELSE /\ last'.res = IF ledger[app] = <<>> THEN "AppNotFound"
                                 ELSE "VersionNotFound"
                  /\ UNCHANGED <<ledger, current>>]_vars

\* a switch to an older, inactive version succeeded
C5_Witness ==
    /\ last.op = "switch" /\ last.res = "Ok"
    /\ Len(ledger[last.app]) >= 2
    /\ get_active_version(ledger[last.app]) = last.ver
    /\ \E i \in 1..Len(ledger[last.app]) :
          /\ ~ledger[last.app][i].is_active
          /\ ledger[last.app][i].installed_at >
               ledger[last.app][ActiveIdx(ledger[last.app])].installed_at

\* C7: with automatic cleanup enabled, right after a successful install_version
\* the ledger lists at most max_versions versions, the version directories are
\* exactly those of the listed versions, and the active version is among them.
C7_RetentionAfterInstall ==
    (autoCleanup /\ last.op = "install" /\ last.res = "Ok") =>
        /\ Len(ledger[last.app]) <= maxVersions
        /\ dirs[last.app] = LedgerVersions(ledger[last.app])
        /\ get_active_version(ledger[last.app]) \in dirs[last.app]

\* an install pruned: more versions were installed than are kept, and the
\* ledger is in the newest-first order that only pruning writes
C7_Witness ==
    /\ autoCleanup /\ last.op = "install" /\ last.res = "Ok"
    /\ maxVersions = 2
    /\ Len(ledger[last.app]) = 2
    /\ clock[last.app] >= 3
    /\ ledger[last.app][1].installed_at > ledger[last.app][2].installed_at

\* C6 as claimed: between scans, with no failure in the last report, a
\* published launcher symlink resolves to the payload of the version the
\* ledger marks active.
C6_LauncherFollowsActive ==
    \A app \in Apps :
        (run.phase = "idle" /\ report.failed = {} /\ launcher[app] # NoLink)
        => /\ launcher[app] = get_active_version(ledger[app])
           /\ launcher[app] \in dirs[app]

\* the four conditions of a usable cache hit, as the claim lists them
C8_Conditions(b) ==
    /\ cacheMem[b] # NoEntry
    /\ cacheMem[b].checksum = content[b]
    /\ desktop[AppOf(b)] # "absent"
    /\ desktop[AppOf(b)] = "launcher"
    /\ launcher[AppOf(b)] # NoLink

\* C8: the cache check returns the cached identity only if the record's
\* checksum equals the file's, the desktop entry exists with the expected Exec
\* line and the launcher symlink exists; if one of these fails the pipeline runs.
C8_HitOnlyIfUsable ==
    [][\A b \in Bundles :
          (pc[b] = "queued" /\ pc'[b] # "queued")
          => /\ pc'[b] = "hit" => (run.cache /\ C8_Conditions(b))
             /\ ~C8_Conditions(b) => pc'[b] = "install"]_vars

\* a record with a matching checksum and an intact desktop entry, but the
\* launcher symlink is gone: the bundle went to the pipeline
C8_Witness ==
    \E b \in Bundles :
        /\ run.phase = "running" /\ pc[b] = "install"
        /\ is_cached(cacheMem, b, content[b])
        /\ desktop[AppOf(b)] = "launcher"
        /\ launcher[AppOf(b)] = NoLink

\* C9 as claimed: a bundle whose cache record matches the unchanged file and
\* whose desktop entry and launcher symlink are as its pipeline published them
\* is answered from the cache by the next scan.
C9_UnchangedIsHit ==
    [][\A b \in Bundles :
          ( /\ pc[b] = "queued" /\ pc'[b] # "queued"
            /\ run.cache
            /\ is_cached(cacheMem, b, content[b])
            /\ desktop[AppOf(b)] = "launcher"
            /\ launcher[AppOf(b)] = cacheMem[b].version )
          => pc'[b] = "hit"]_vars

\* bundles dispatched by the running batch
Batch == {b \in Bundles : pc[b] \notin {"none", "skipped"}}

DistinctNames == \A x, y \in Batch : x # y => AppOf(x) # AppOf(y)

\* C10: when a batch of bundles with pairwise distinct normalized names
\* completes, every bundle that succeeds on its own is reported processed (and,
\* if it ran the pipeline, is installed, published and cached), and every
\* bundle that fails on its own is in failed exactly once, with its own path
\* and reason; sequential and parallel mode alike.
C10_FailureIsolation ==
    [][(run.phase = "running" /\ run'.phase = "idle" /\ DistinctNames)
       => \A b \in Batch :
            /\ solo[b] \in {"ok", "hit"} =>
                 /\ b \in report'.processed
                 /\ \A f \in report'.failed : f[1] # b
                 /\ pc[b] = solo[b]
                 /\ cacheFile'[b].checksum = content'[b]
                 /\ desktop'[AppOf(b)] = "launcher"
                 /\ pc[b] = "ok" =>
                      /\ get_version(ledger'[AppOf(b)], FileVer(b))
                      /\ FileVer(b) \in dirs'[AppOf(b)]
                      /\ launcher'[AppOf(b)] = FileVer(b)
            /\ solo[b] \in FailStates =>
                 /\ <<b, solo[b]>> \in report'.failed
                 /\ Cardinality({f \in report'.failed : f[1] = b}) = 1
                 /\ b \notin report'.processed]_vars

\* a parallel batch of a corrupt bundle and a well-formed one has completed
C10_Witness ==
    /\ run.phase = "running" /\ run.par
    /\ pc["b1"] = "fail_Extraction"
    /\ pc["a1"] = "ok"
    /\ pc["a2"] = "none"
    /\ launcher["a"] = FileLabel(1)
    /\ is_cached(cacheMem, "a1", content["a1"])

\* C13: whenever check_appimage returns a verdict, its overall status follows
\* the precedence: checksum not verified gives Error; otherwise a signature that
\* is present, was verified because verification is enabled, and failed gives
\* Error; otherwise Warning if warn-on-unsigned is set and no signature is
\* present, or detection is set and no sandboxing was detected; otherwise Secure.
C13_Precedence ==
    (sec.out = "done" /\ sec.result.res = "Ok") =>
        LET r == sec.result.report
            c == sec.chk
        IN  /\ r.checksum_verified = sec.facts.readable
            /\ r.signature_present = (sec.facts.sig # "none")
            /\ r.overall_status =
                 IF ~r.checksum_verified THEN "Error"
                 ELSE IF /\ r.signature_present
                         /\ c.verify
                         /\ r.signature_verified = "false"
                      THEN "Error"
                 ELSE IF \/ c.warn /\ ~r.signature_present
                         \/ c.detect /\ ~r.sandboxing_detected
                      THEN "Warning"
                      ELSE "Secure"

\* a failed signature verification took precedence over a sandboxing warning
C13_Witness ==
    /\ sec.out = "done" /\ sec.result.res = "Ok"
    /\ sec.result.report.checksum_verified
    /\ sec.result.report.signature_verified = "false"
    /\ sec.chk.detect /\ ~sec.result.report.sandboxing_detected
    /\ sec.result.report.overall_status = "Error"

\* C14 as claimed: for a file whose checksum cannot be computed,
\* check_appimage returns a verdict, not an error, and the verdict's overall
\* status is Error, whatever the settings and the other steps' outcomes.
C14_UnreadableIsError ==
    (sec.out = "done" /\ ~sec.facts.readable) =>
        /\ sec.result.res = "Ok"
        /\ sec.result.report.overall_status = "Error"

\* C15 as claimed: the security assessment never decides a bundle's fate: the
\* step of process_single_appimage that assesses and installs leaves the bundle
\* where install_version alone puts it (published next, or failed with
\* install_version's error), whatever the assessment returned.
C15_AssessmentAdvisory ==
    [][\A b \in Bundles :
          (pc[b] = "install" /\ pc'[b] # "install" /\ ~run.dry)
          => LET v == extract_version_from_appimage(b, clock[AppOf(b)])
                 r == install_version(AppOf(b), v)
             IN  /\ pc'[b] = IF r.res = "Ok" THEN "publish" ELSE "fail_" \o r.res
                 /\ ledger'[AppOf(b)] = r.ledger]_vars

\* C12 as claimed: no step of a dry-run process_all changes a ledger, a version
\* directory, a current symlink, a desktop entry, a launcher symlink or the
\* persisted cache file.
C12_DryRunChangesNothing ==
    [][run.dry => UNCHANGED <<ledger, dirs, current, desktop, launcher, cacheFile>>]_vars

\* the step with which process_all returns its report
Returns == run.phase = "running" /\ run'.phase = "idle"

\* C17 as claimed: every batch writes the cache file exactly once, when all its
\* bundles are terminal, whatever their outcomes; whether or not the write
\* succeeds, process_all returns the report of the workers' results.
C17_SaveOnceAsClaimed ==
    [][/\ Returns => /\ saves = 0 /\ saves' = 1
                     /\ \A b \in Bundles : pc[b] \in Terminal
                     /\ report'.processed = CollectProcessed(pc)
                     /\ report'.failed = CollectFailed(pc)
       /\ ~Returns => (saves' = 0 /\ cacheFile' = cacheFile) \/ run'.phase = "idle"]_vars

\* C17 amended: a batch of a Processor that has a cache writes the cache file
\* exactly once, when all its bundles are terminal, whatever their outcomes; a
\* Processor without a cache never writes it; whether or not the write succeeds,
\* process_all returns the report of the workers' results.
C17_SaveOnce ==
    [][/\ Returns => /\ saves = 0 /\ saves' = IF run.cache THEN 1 ELSE 0
                     /\ ~run.cache => cacheFile' = cacheFile
                     /\ \A b \in Bundles : pc[b] \in Terminal
                     /\ report'.processed = CollectProcessed(pc)
                     /\ report'.failed = CollectFailed(pc)
       /\ ~Returns => (saves' = 0 /\ cacheFile' = cacheFile) \/ run'.phase = "idle"]_vars

\* a batch with one success and one failure has returned after a cache write
\* that failed
C17_Witness ==
    /\ run.phase = "idle" /\ nruns = 1 /\ saves = 1
    /\ report.processed # {} /\ report.failed # {}
    /\ cacheFile = EmptyCache

\* C19 as claimed: the report that process_all returns counts in cached_hits
\* the bundles of the batch that were answered from the cache.
C19_CachedHitsCounted ==
    [][Returns => report'.cached_hits = Cardinality({b \in Bundles : pc[b] = "hit"})]_vars

\* C20 as claimed: a scan whose report lists a failed bundle exits with a
\* failure status.
C20_FailedScanExitsNonZero ==
    (run.phase = "idle" /\ exitStatus # "none" /\ report.failed # {})
        => exitStatus = "FAILURE"

\* C16: process_all marks a staged bundle skipped exactly when incremental
\* scanning is on, a last-scan time is set and the file was modified before that
\* time; the report lists the skipped bundles apart from processed and failed;
\* a skipped bundle's cache record is not touched and a batch that skips every
\* bundle changes no ledger, version directory, cache or publication.
C16_SkippedExactlyWhenOld ==
    [][/\ (run.phase = "idle" /\ run'.phase = "running")
          => \A b \in staged :
               pc'[b] = "skipped"
                 <=> (run'.incr /\ run'.last.some /\ Modified(b) < 2 * run'.last.t)
       /\ Returns
          => /\ report'.skipped = {b \in Bundles : pc[b] = "skipped"}
             /\ report'.skipped \cap report'.processed = {}
             /\ report'.skipped \cap {f[1] : f \in report'.failed} = {}
       /\ run.phase = "running"
          => /\ \A b \in Bundles :
                  pc[b] = "skipped" => /\ pc'[b] \in {"skipped", "none"}
                                       /\ ~Returns => cacheMem'[b] = cacheMem[b]
                                       /\ cacheFile'[b] = cacheFile[b]
             /\ (\A b \in staged : pc[b] = "skipped")
                  => UNCHANGED <<ledger, dirs, current, launcher, desktop,
                                 cacheFile>>]_vars

\* a batch in which the bundle modified before the last scan was skipped and
\* the one modified in the same second as the last scan went through the pipeline
C16_Witness ==
    /\ run.phase = "running" /\ run.incr /\ run.last = SomeTime(1)
    /\ pc["a1"] = "skipped"
    /\ pc["b1"] \in (Terminal \ {"none", "skipped"})

\* C18: in a parallel batch the cache lock is free or held by a worker that is
\* at its cache lookup or at its cache update; no worker holds it while it is in
\* the security assessment, the installation, the extraction or the publication.
C18_LockOnlyAroundCache ==
    /\ lock \in {"free"} \cup Bundles
    /\ \A b \in Bundles : lock = b => (run.par /\ pc[b] \in {"queued", "cacheupd"})

\* two workers are inside the pipeline steps at the same time while a third
\* one holds the lock for its lookup
C18_Witness ==
    /\ run.par /\ lock = "a2" /\ pc["a2"] = "queued"
    /\ pc["a1"] = "publish" /\ pc["b1"] = "install"

\* the report returned lists every staged bundle in exactly one of processed,
\* failed and skipped
Partition ==
    LET F == {f[1] : f \in report'.failed}
    IN  /\ report'.processed \cup F \cup report'.skipped = staged
        /\ report'.processed \cap F = {}
        /\ report'.processed \cap report'.skipped = {}
        /\ F \cap report'.skipped = {}
        /\ Cardinality(report'.failed) = Cardinality(F)

RECURSIVE SplitLines(_, _)
SplitLines(t, cur) ==
    IF t = <<>> THEN (IF cur = <<>> THEN <<>> ELSE <<cur>>)
    ELSE IF Head(t) \in {"LF", "CR"} THEN <<cur>> \o SplitLines(Tail(t), <<>>)
    ELSE SplitLines(Tail(t), Append(cur, Head(t)))

DesktopKeys ==
    <<"[Desktop Entry]", "Type=Application", "Name=", "Exec=", "Icon=",
      "Terminal=", "Categories=">>

\* C21: the content that to_file_content returns has exactly seven lines, each
\* beginning with its fixed key, whatever line feeds and carriage returns the
\* name, the paths and the categories contain.
C21_SevenLines ==
    (call.fn = "to_file_content" /\ call.done) =>
        LET ls == SplitLines(call.out, <<>>)
        IN  /\ Len(ls) = 7
            /\ \A i \in 1..7 : ls[i] # <<>> /\ ls[i][1] = DesktopKeys[i]
            /\ Cardinality({i \in 1..Len(call.out) : call.out[i] \in {"LF", "CR"}}) = 7

\* an entry was rendered whose name holds a line feed followed by an Exec key
\* and whose category holds a carriage return
C21_Witness ==
    /\ call.fn = "to_file_content" /\ call.done
    /\ call.arg.name = <<"LF", "Exec=">>
    /\ call.arg.categories = <<<<"CR">>, <<"a">>>>

\* t occurs in s as a run of consecutive characters
Contains(s, t) == \E i \in 0..(Len(s) - Len(t)) : SubSeq(s, i + 1, i + Len(t)) = t

\* C22 as claimed: the name that normalize_appimage_name returns is lowercase,
\* holds no digit, no architecture or platform word and no two separators in a
\* row, and neither begins nor ends with a hyphen.
C22_NormalizedClean ==
    (call.fn = "normalize_appimage_name" /\ call.done) =>
        LET out == call.out
        IN  /\ to_lowercase(out) = out
            /\ \A i \in 1..Len(out) : out[i] \notin Digits
            /\ \A w \in 1..Len(ArchWords) : ~Contains(out, ArchWords[w])
            /\ \A i \in 1..(Len(out) - 1) :
                   ~(out[i] \in Separators /\ out[i + 1] \in Separators)
            /\ out # <<>> => (out[1] # "-" /\ out[Len(out)] # "-")

\* C23 as claimed: a bundle's version is in the ledger only once the bundle's
\* extraction has succeeded, and when the extraction fails the application's
\* ledger, version directories and current symlink are as they were before the
\* bundle's pipeline: they do not hold the bundle's version.
C23_ExtractBeforeInstall ==
    [][\A b \in Bundles :
          (pc[b] = "publish" /\ pc'[b] = "fail_Extraction")
          => /\ ~get_version(ledger'[AppOf(b)], lver[b])
             /\ lver[b] \notin dirs'[AppOf(b)]
             /\ current'[AppOf(b)] # lver[b]]_vars

\* C24 as claimed: the reprocessing that a checksum match with a missing or
\* wrong desktop entry or launcher symlink forces goes through: the install
\* step succeeds, and the publication step leaves a desktop entry and a
\* launcher symlink with which the cache record is usable.
C24_RepairRestores ==
    [][\A b \in Bundles :
          (run.cache /\ is_cached(cacheMem, b, content[b]))
          => /\ (pc[b] = "install" /\ pc'[b] # "install") => pc'[b] = "publish"
             /\ (pc[b] = "publish" /\ pc'[b] # "publish")
                  => /\ pc'[b] = "cacheupd"
                     /\ desktop'[AppOf(b)] = "launcher"
                     /\ LinkExists(launcher'[AppOf(b)], dirs'[AppOf(b)])]_vars

\* the bundle's version is installed, active and published
InstalledAndPublished(b) ==
    LET app == AppOf(b)
        v == extract_version_from_appimage(b, clock[app])
    IN  /\ get_version(ledger[app], v) /\ v \in dirs[app]
        /\ get_active_version(ledger[app]) = v /\ current[app] = v
        /\ launcher[app] = v /\ desktop[app] = "launcher"

\* C25 as claimed: the full pipeline run again on a bundle that is installed,
\* active and published gets through its install step and its publication step
\* with success and leaves ledger, version directories, current symlink,
\* launcher symlink and desktop entry as they were.
C25_ReprocessingIdempotent ==
    [][\A b \in Bundles :
          (~run.dry /\ InstalledAndPublished(b))
          => /\ (pc[b] = "install" /\ pc'[b] # "install")
                  => (pc'[b] = "publish" /\ UNCHANGED <<ledger, dirs, current>>)
             /\ (pc[b] = "publish" /\ pc'[b] # "publish")
                  => (pc'[b] = "cacheupd" /\ UNCHANGED <<launcher, desktop>>)]_vars

\* C26 as claimed: within a batch the cache record of a path changes only with
\* the cache update that ends a successful pipeline on that path; the step with
\* which a pipeline fails changes no cache record, the failed bundle's record is
\* written back as it was, and when the batch returns no failed bundle has a
\* record that the next scan would take for a usable hit.
C26_CacheOnlyOnSuccess ==
    [][/\ (run.phase = "running" /\ run'.phase = "running")
          => \A b \in Bundles :
                cacheMem'[b] # cacheMem[b] => (pc[b] = "cacheupd" /\ pc'[b] = "ok")
       /\ \A b \in Bundles :
             (pc[b] \notin FailStates /\ pc'[b] \in FailStates)
                => (cacheMem' = cacheMem /\ cacheFile' = cacheFile)
       /\ Returns
          => \A b \in Bundles :
                pc[b] \in FailStates
                => /\ cacheFile'[b] = cacheFile[b]
                   /\ ~(is_cached(cacheFile', b, content[b])
                          /\ cache_entry_is_usable(AppOf(b)))]_vars

\* C27 as claimed: when a parallel batch returns in which two bundles of one
\* application with different version labels were both processed by their own
\* pipelines, and the retention limit leaves room for both, the application's
\* ledger lists both versions, exactly one record is active and the current
\* symlink points at the active version.
C27_NoLostLedgerUpdate ==
    [][(Returns /\ run.par /\ maxVersions >= 2)
       => \A x, y \in Bundles :
            (x # y /\ AppOf(x) = AppOf(y) /\ FileVer(x) # FileVer(y)
               /\ pc[x] = "ok" /\ pc[y] = "ok")
            => LET m == ledger[AppOf(x)]
               IN  /\ get_version(m, FileVer(x)) /\ get_version(m, FileVer(y))
                   /\ ActiveCount(m) = 1
                   /\ current[AppOf(x)] = get_active_version(m)]_vars

\* what process_sequential makes of the batch that is about to return
SequentialEnd ==
    process_sequential(1, Batch, run, start, [b \in Bundles |-> "none"])

\* the batch that returns ends in the ledgers, version directories, published
\* artifacts, cache records and report of the sequential run from its start
EndsAsSequential ==
    LET e == SequentialEnd
    IN  /\ \A app \in Apps :
              /\ ledger'[app] = e.apps[app].ledger
              /\ dirs'[app] = e.apps[app].dirs
              /\ current'[app] = e.apps[app].current
              /\ launcher'[app] = e.apps[app].launcher
              /\ desktop'[app] = e.apps[app].desktop
        /\ cacheFile' = e.cache
        /\ report'.processed = {b \in Batch : e.out[b] \in {"hit", "ok"}}
        /\ report'.failed = {<<b, e.out[b]>> : b \in {x \in Batch : e.out[x] \in FailStates}}
        /\ report'.skipped = {b \in Bundles : pc[b] = "skipped"}

\* C28: a parallel batch whose bundles have pairwise distinct normalized names
\* returns, whatever the interleaving of its workers was, with the ledgers,
\* version directories, published artifacts, cache records and report sets
\* that process_sequential produces from the state the batch started in; a
\* sequential batch does so for every input.
C28_ParallelAsSequential ==
    [][(Returns /\ (run.par => DistinctNames)) => EndsAsSequential]_vars

\* a parallel batch of two applications in which the bundle that is later in
\* the enumeration is ahead of the earlier one
C28_Witness ==
    /\ run.phase = "running" /\ run.par /\ DistinctNames
    /\ pc["b1"] = "install" /\ pc["a2"] = "cacheupd"
    /\ ledger["a"] # start.apps["a"].ledger

\* C29: after every Version Manager call that returned Ok (install, switch,
\* remove, with the pruning that install runs), the version directories of the
\* application are exactly the versions its ledger lists and the current
\* symlink points at the directory of the ledger's active version.
C29_DiskFollowsLedger ==
    (last.op # "none" /\ last.res = "Ok")
        => /\ dirs[last.app] = LedgerVersions(ledger[last.app])
           /\ current[last.app] = get_active_version(ledger[last.app])

\* an install has returned Ok after which the application keeps as many
\* versions as the retention limit allows, fewer than were installed
C29_Witness ==
    /\ last.op = "install" /\ last.res = "Ok" /\ autoCleanup
    /\ Len(ledger["a"]) = maxVersions /\ clock["a"] > maxVersions
    /\ dirs["a"] = LedgerVersions(ledger["a"])

\* C30 as claimed: once a bundle is installed and its extraction succeeds, the
\* creation of the launcher symlink succeeds and leaves the link pointing at
\* the bundle's version, whatever was at the link path: nothing, a link to an
\* existing version, or a link to a version that has been removed.
C30_LinkAlwaysReplaced ==
    [][\A b \in Bundles :
          (pc[b] = "publish" /\ pc'[b] # "publish" /\ extract_metadata(b))
          => (pc'[b] = "cacheupd" /\ launcher'[AppOf(b)] = lver[b])]_vars

\* the installation and the cache file as the returning batch leaves them
AfterReturn ==
    [apps |-> [app \in Apps |->
                 [ledger |-> ledger'[app], dirs |-> dirs'[app],
                  current |-> current'[app], clock |-> clock'[app],
                  launcher |-> launcher'[app], desktop |-> desktop'[app]]],
     cache |-> cacheFile']

\* what a live process_all of the same configuration over the staging directory
\* ends in when it starts from installation and cache s: ledgers, version
\* directories, published artifacts and the outcome of each bundle
LiveRunFrom(s) ==
    LET e == process_sequential(1, staged, [run EXCEPT !.dry = FALSE], s,
                                [b \in Bundles |-> "none"])
    IN  [apps |-> [app \in Apps |->
                     [ledger |-> e.apps[app].ledger, dirs |-> e.apps[app].dirs,
                      current |-> e.apps[app].current,
                      launcher |-> e.apps[app].launcher,
                      desktop |-> e.apps[app].desktop]],
         out |-> e.out]

\* C31 as claimed: when a dry-run process_all returns, the live process_all that
\* follows it over the same staging directory ends in the ledgers, published
\* artifacts and report of the live process_all run from the state the dry run
\* started in.
C31_DryRunNoInfluence ==
    [][(Returns /\ run.dry) => LiveRunFrom(AfterReturn) = LiveRunFrom(start)]_vars

\* the report list a live process_all of the same configuration, from the state
\* the running batch started in, puts bundle b in
LiveList(b) ==
    LET e == process_sequential(1, Batch, [run EXCEPT !.dry = FALSE], start,
                                [x \in Bundles |-> "none"])
    IN  IF pc[b] = "skipped" THEN "skipped"
        ELSE IF e.out[b] \in {"hit", "ok"} THEN "processed"
        ELSE IF e.out[b] \in FailStates THEN "failed"
        ELSE "none"

\* C32 as claimed: the report a dry-run process_all returns has each bundle in
\* the list (processed, failed or skipped) in which a live process_all from the
\* same state and staging directory has it.
C32_DryRunSameReport ==
    [][(Returns /\ run.dry)
       => \A b \in staged :
            /\ b \in report'.processed <=> LiveList(b) = "processed"
            /\ b \in {f[1] : f \in report'.failed} <=> LiveList(b) = "failed"
            /\ b \in report'.skipped <=> LiveList(b) = "skipped"]_vars

\* C33: an install that returns Ok leaves the installed version active, and
\* every version that its pruning removed from the ledger had been installed
\* earlier than every inactive version that remains; the directories of the
\* removed versions are gone and those of the remaining ones are kept.
C33_PruneOldestFirst ==
    [][(last'.op = "install" /\ last'.res = "Ok")
       => LET app == last'.app
              m == ledger[app]
              n == ledger'[app]
              removed == {i \in 1..Len(m) : ~get_version(n, m[i].version)}
          IN  /\ get_active_version(n) = last'.ver
              /\ \A i \in removed :
                    /\ ~m[i].is_active \/ m[i].version # last'.ver
                    /\ m[i].version \notin dirs'[app]
                    /\ \A j \in 1..Len(n) :
                          ~n[j].is_active => n[j].installed_at > m[i].installed_at
              /\ \A j \in 1..Len(n) : n[j].version \in dirs'[app]]_vars

\* an install has pruned under a retention limit of two: the ledger was saved
\* in the order of the sort, newest first, and holds the new version and the
\* newer of the two it had
C33_Witness ==
    /\ last.op = "install" /\ last.res = "Ok" /\ autoCleanup /\ maxVersions = 2
    /\ Len(ledger["a"]) = 2 /\ clock["a"] >= 3
    /\ ledger["a"][1].version = last.ver /\ ledger["a"][1].is_active
    /\ ledger["a"][1].installed_at > ledger["a"][2].installed_at

\* C34 as claimed: when process_all enumerates the staging directory, a bundle
\* that has no cache record for its path and whose version is not in its
\* application's ledger is not put in skipped, whatever its modification time.
C34_SkipsOnlySeen ==
    [][(run.phase = "idle" /\ run'.phase = "running")
       => \A b \in staged :
            (cacheFile[b] = NoEntry
               /\ ~get_version(ledger[AppOf(b)],
                               extract_version_from_appimage(b, clock[AppOf(b)])))
            => pc'[b] # "skipped"]_vars

\* C35 as claimed: remove_version for a label that the ledger, holding at least
\* two records, does not list returns VersionNotFound and changes neither the
\* ledger nor the version directories; it returns Ok only when it removed a
\* listed version that was not active.
C35_RemoveUnlistedFails ==
    [][last'.op = "remove"
       => LET app == last'.app
              v == last'.ver
              m == ledger[app]
          IN  /\ (Len(m) >= 2 /\ ~get_version(m, v))
                 => /\ last'.res = "VersionNotFound"
                    /\ ledger'[app] = m /\ dirs'[app] = dirs[app]
              /\ last'.res = "Ok"
                 => /\ get_version(m, v) /\ get_active_version(m) # v
                    /\ ~get_version(ledger'[app], v)]_vars

\* C36 as claimed: when the cache update ends a full pipeline on a bundle, the
\* version written into the bundle's cache record is the label under which the
\* pipeline's install_version has just recorded the bundle in the ledger (the
\* ledger's active version, the batch being sequential), whether the label comes
\* from the file name or from the clock.
C36_CacheVersionIsLedgerVersion ==
    [][\A b \in Bundles :
          (run.cache /\ ~run.dry /\ ~run.par /\ pc[b] = "cacheupd" /\ pc'[b] = "ok")
          => /\ cacheMem'[b].version = get_active_version(ledger[AppOf(b)])
             /\ get_version(ledger[AppOf(b)], cacheMem'[b].version)]_vars

\* C37 as claimed: a rollback_update on a ledger that holds a version installed
\* before the active one returns Ok with the latest of those versions active;
\* on a ledger whose only version is the active one it returns RollbackFailed
\* and changes neither the ledger nor the current symlink.
C37_RollbackToPrevious ==
    [][last'.op = "rollback"
       => LET app == last'.app
              m == ledger[app]
              a == ActiveIdx(m)
              older == {i \in 1..Len(m) : a # 0 /\ m[i].installed_at < m[a].installed_at}
          IN  /\ older # {}
                 => /\ last'.res = "Ok"
                    /\ \E i \in older :
                          /\ \A j \in older : m[j].installed_at <= m[i].installed_at
                          /\ get_active_version(ledger'[app]) = m[i].version
                          /\ current'[app] = m[i].version
              /\ (Len(m) = 1 /\ a # 0)
                 => /\ last'.res = "RollbackFailed"
                    /\ ledger'[app] = m /\ current'[app] = current[app]]_vars

\* the name <stem>-<n>.<ext> for a file name with stem and extension
Numbered(name, n) ==
    file_stem(name) \o <<"-", Decimal(n)>> \o
        (IF extension(name) = <<>> THEN <<>> ELSE <<".">> \o extension(name))

\* C38 as claimed: after a live move_appimages every file that was in the
\* staging directory is still there with its content, every bundle of the batch
\* has been moved, to its own file name or, that name being taken, to
\* <stem>-<n>.<ext> with every smaller n taken, and the moved bundles are in the
\* directory under pairwise distinct paths with their own content.
C38_NoOverwrite ==
    (call.fn = "move_appimages" /\ call.done /\ ~call.arg.dry_run)
    => LET batch == call.arg.batch
           out == call.out
       IN  /\ call.arg.dir \subseteq out.dir
           /\ Len(out.moved) = Len(batch) /\ out.errors = <<>>
           /\ \A i \in 1..Len(out.moved) :
                 /\ [name |-> out.moved[i], content |-> batch[i].content] \in out.dir
                 /\ \A j \in 1..Len(out.moved) : i # j => out.moved[i] # out.moved[j]
                 /\ \/ out.moved[i] = batch[i].name
                    \/ \E n \in 1..MaxCounter :
                          /\ out.moved[i] = Numbered(batch[i].name, n)
                          /\ \A k \in 1..(n - 1) :
                                path_exists(out.dir, Numbered(batch[i].name, k))

\* C39: in a run_sync the scan is running or has run only if the ingest has
\* returned, with Ok, and no step of the ingest happens once the scan has
\* started; when the ingest has failed the command has ended with a failure
\* status, the staging directory, the ledgers and the publications are as they
\* were, and no scan runs.
C39_IngestBeforeScan ==
    /\ (run.phase = "running" \/ nruns > 0)
          => (call.done /\ call.out = <<"Ok">> /\ call.arg.found \subseteq staged)
    /\ (call.done /\ call.out = <<"Err">>)
          => /\ exitStatus = "FAILURE"
             /\ run.phase = "idle" /\ nruns = 0 /\ staged = {}
             /\ \A app \in Apps : ledger[app] = <<>> /\ launcher[app] = NoLink

\* the scan of a run_sync has processed a bundle that its ingest had moved
\* into the staging directory
C39_Witness ==
    /\ call.fn = "run_sync" /\ call.done /\ call.out = <<"Ok">>
    /\ nruns = 1 /\ run.phase = "idle" /\ exitStatus = "SUCCESS"
    /\ report.processed \cap call.arg.found # {}

====
